---- MODULE Spec2Model ----
(***************************************************************************)
(* cspy: a constraint satisfaction problem (CSP) library.                  *)
(*                                                                         *)
(* The model follows src/cspy/__init__.py (Variable, Constraint, CSP) and  *)
(* src/cspy/solver.py (Solver: backtracking search with forward checking,  *)
(* and min-conflicts local search).                                        *)
(*                                                                         *)
(* Python objects are mutable and shared by reference, so every Variable   *)
(* object lives in a heap (a sequence indexed by object id) and the lists  *)
(* and dictionaries of a CSP hold object ids.  copy.deepcopy allocates new *)
(* objects.  A domain is never mutated in place by the library (it is      *)
(* always rebound), so a domain is the sequence of its values in the       *)
(* container's iteration order.  A Python dict is the sequence of its      *)
(* <<key, value>> items in insertion order.                                *)
(***************************************************************************)
EXTENDS Integers, Sequences, FiniteSets, TLC

\* ------------------------------------------------------------------------
\* Bounds of the model
\* ------------------------------------------------------------------------

\* Domain values are drawn from 1..MaxVal.
MaxVal == 3

\* Explicit iter_limit arguments are drawn from 0..MaxIterLimit; a run with
\* the default iter_limit is followed for at most MaxIterLimit + 1 repairs.
MaxIterLimit == 2

\* ------------------------------------------------------------------------
\* Program constants
\* ------------------------------------------------------------------------

\* Python's None, the value of an unassigned Variable.
None == 0

\* progress_freq=1e4, the default of Solver.backtracking and min_conflicts.
DefaultProgressFreq == 10000

\* iter_limit=1e9, the default of Solver.min_conflicts.
DefaultIterLimit == 1000000000

\* ------------------------------------------------------------------------
\* Sequence and dict helpers
\* ------------------------------------------------------------------------

\* F at the value of x: x is evaluated once, however often F uses it.
Bind(x, F(_)) == CHOOSE r \in {F(v) : v \in {x}} : TRUE

Range(s) == {s[i] : i \in 1..Len(s)}

IsIn(x, s) == \E i \in 1..Len(s) : s[i] = x

MinOf(a, b) == IF a <= b THEN a ELSE b

\* The sum of a sequence of integers.
RECURSIVE SumSeq(_)
SumSeq(s) == IF s = <<>> THEN 0 ELSE Head(s) + SumSeq(Tail(s))

\* dict[key] = value on a dict held as a sequence of <<key, value>> items: a
\* present key keeps its place and takes the new value, a new key is
\* appended.
DictSet(d, key, value) ==
    IF \E i \in 1..Len(d) : d[i][1] = key
    THEN [i \in 1..Len(d) |-> IF d[i][1] = key THEN <<key, value>> ELSE d[i]]
    ELSE Append(d, <<key, value>>)

DictHas(d, key) == \E i \in 1..Len(d) : d[i][1] = key

DictGet(d, key) == d[CHOOSE i \in 1..Len(d) : d[i][1] = key][2]

\* {k: v for ...} over a sequence of <<key, value>> pairs.
RECURSIVE DictFrom(_)
DictFrom(pairs) ==
    IF pairs = <<>> THEN <<>>
    ELSE Bind(DictFrom(SubSeq(pairs, 1, Len(pairs) - 1)),
           LAMBDA front :
             DictSet(front, pairs[Len(pairs)][1], pairs[Len(pairs)][2]))

\* ------------------------------------------------------------------------
\* Data model (src/cspy/__init__.py)
\* ------------------------------------------------------------------------

\* Variable.__init__(name, domain): init_domain is a deep copy of domain.
\* bound_in_domain is a history field, not an attribute of the object: it
\* stays true as long as every value make_assignment has bound to the object
\* (or to a scratch copy of it), really or hypothetically, was None or a
\* member of init_domain.
Variable(name, domain) ==
    [name |-> name, domain |-> domain, init_domain |-> domain, value |-> None,
     bound_in_domain |-> TRUE]

\* Constraint.__init__(var_names, satisfied): satisfied names the predicate.
Constraint(var_names, satisfied) ==
    [var_names |-> var_names, satisfied |-> satisfied]

\* The predicates of the model's constraints, from the repository's own
\* constraints.  vals are the .value fields of the arguments, in the order
\* of the constraint's var_names.
\*   "ne"      lambda v0, v1: v0.value != v1.value
\*   "lt"      lambda x, y: x < y
\*   "between" lambda a, b, c: c < min(a, b) or c > max(a, b)
\*   "gt1"     lambda x: x > 1    (Variable.__gt__ with a plain value, which
\*             Variable.parse_value hands back as it is)
PredNe(vals) == vals[1] # vals[2]

PredLt(vals) == vals[1] < vals[2]

PredBetween(vals) ==
    \/ vals[3] < (IF vals[2] < vals[1] THEN vals[2] ELSE vals[1])
    \/ vals[3] > (IF vals[2] > vals[1] THEN vals[2] ELSE vals[1])

PredGt1(vals) == vals[1] > 1

\* constraint.satisfied(*arg_list) on Variable records.
Satisfied(constraint, arg_list) ==
    Bind([i \in 1..Len(arg_list) |-> arg_list[i].value],
      LAMBDA vals :
        CASE constraint.satisfied = "ne" -> PredNe(vals)
          [] constraint.satisfied = "lt" -> PredLt(vals)
          [] constraint.satisfied = "between" -> PredBetween(vals)
          [] constraint.satisfied = "gt1" -> PredGt1(vals))

\* Whether constraint.satisfied(*arg_list) raises instead of returning:
\* Variable.__lt__ and __gt__ compare .value fields, and Python 3 raises
\* TypeError when one of them is None.  v0.value != v1.value never raises.
Raises(constraint, arg_list) ==
    /\ constraint.satisfied \in {"lt", "between", "gt1"}
    /\ \E i \in 1..Len(arg_list) : arg_list[i].value = None

\* CSP.__init__ after the add_variable and add_constraint calls of a script:
\* the variables are objects 1..n of the heap.
CSP(n, constraints, names) ==
    [var_list |-> [i \in 1..n |-> i],
     var_dict |-> DictFrom([i \in 1..n |-> <<names[i], i>>]),
     constraints |-> constraints]

\* ArgList with the variables of the constraint taken in the order of the
\* CSP's var_list instead of the order of the constraint's var_names.
ArgList_in_list_order(h, c, constraint) ==
    Bind(SelectSeq(c.var_list, LAMBDA id : IsIn(h[id].name, constraint.var_names)),
      LAMBDA ids : [i \in 1..Len(ids) |-> h[ids[i]]])

\* [csp.var_dict[name] for name in constraint.var_names], as records.
ArgList(h, c, constraint) ==
    [i \in 1..Len(constraint.var_names) |->
        h[DictGet(c.var_dict, constraint.var_names[i])]]

\* CSP.all_variables_assigned
all_variables_assigned(h, c) ==
    \A i \in 1..Len(c.var_list) : h[c.var_list[i]].value # None

\* CSP.get_constraints_with: the constraints naming var, in order.
get_constraints_with(c, var_name) ==
    SelectSeq(c.constraints, LAMBDA con : IsIn(var_name, con.var_names))

\* solved without the loop over the constraints: every variable assigned.
solved_when_assigned(h, c) == all_variables_assigned(h, c)

\* CSP.solved
solved(h, c) ==
    /\ all_variables_assigned(h, c)
    /\ \A k \in 1..Len(c.constraints) :
          Satisfied(c.constraints[k], ArgList(h, c, c.constraints[k]))

\* CSP.num_constraints_violated
num_constraints_violated(h, c) ==
    Cardinality({k \in 1..Len(c.constraints) :
        ~Satisfied(c.constraints[k], ArgList(h, c, c.constraints[k]))})

\* Whether some predicate raises when every constraint is evaluated on the
\* current values (CSP.num_constraints_violated, CSP.solved).
EvaluationRaises(h, c) ==
    \E k \in 1..Len(c.constraints) :
        Raises(c.constraints[k], ArgList(h, c, c.constraints[k]))

\* {var.name: var.value for var in _csp.var_list}
SolutionOf(h, c) ==
    DictFrom([i \in 1..Len(c.var_list) |->
        <<h[c.var_list[i]].name, h[c.var_list[i]].value>>])

\* A shallow copy (copy.copy): the copy's list and dict point at the
\* caller's own Variable objects.
CopyId_shallow(h, id) == id

\* copy.deepcopy(self.csp): every Variable of the CSP gets a new object
\* after the live ones; the copy's list and dict point at the new objects.
\* Sharing inside the CSP is kept (the memo of deepcopy).
CopyId(h, id) == Len(h) + id

DeepCopyHeap(h, c) == h \o [i \in 1..Len(h) |-> h[i]]

\* The copy of the CSP as the CSP itself: its list and dict are the
\* caller's, with the caller's Variable objects.
DeepCopyCsp_same(h, c) == c

DeepCopyCsp(h, c) ==
    [var_list |-> [i \in 1..Len(c.var_list) |-> CopyId(h, c.var_list[i])],
     var_dict |-> [i \in 1..Len(c.var_dict) |->
                     <<c.var_dict[i][1], CopyId(h, c.var_dict[i][2])>>],
     constraints |-> c.constraints]

\* ------------------------------------------------------------------------
\* Solver utilities (src/cspy/solver.py)
\* ------------------------------------------------------------------------

\* The undo record of a call that modified nothing.
NoUndo == <<<<>>, <<>>, <<>>>>

\* Solver.make_assignment(var_list, value_list, domain_list) from position k
\* of the zip on: a variable whose value differs is recorded with its
\* previous value and domain, takes the value, and takes the domain {value},
\* or its entry of domain_list when the value is None.
RECURSIVE MakeAssignmentFrom(_, _, _, _, _, _)
MakeAssignmentFrom(h, var_list, value_list, domain_list, k, undo) ==
    IF k > MinOf(Len(var_list), MinOf(Len(value_list), Len(domain_list)))
    THEN [heap |-> h, undo |-> undo]
    ELSE IF h[var_list[k]].value # value_list[k]
         THEN Bind(<<[h EXCEPT ![var_list[k]].value = value_list[k],
                               ![var_list[k]].domain =
                                    IF value_list[k] # None
                                    THEN <<value_list[k]>> ELSE domain_list[k],
                               ![var_list[k]].bound_in_domain =
                                    @ /\ (\/ value_list[k] = None
                                          \/ IsIn(value_list[k],
                                                  h[var_list[k]].init_domain))],
                     <<Append(undo[1], var_list[k]),
                       Append(undo[2], h[var_list[k]].value),
                       Append(undo[3], h[var_list[k]].domain)>> >>,
                   LAMBDA n : MakeAssignmentFrom(n[1], var_list, value_list,
                                                 domain_list, k + 1, n[2]))
         ELSE MakeAssignmentFrom(h, var_list, value_list, domain_list,
                                 k + 1, undo)

\* Solver.make_assignment with domain_list given (the undo calls,
\* make_assignment(*undo_assign)).
make_assignment_domains(h, var_list, value_list, domain_list) ==
    MakeAssignmentFrom(h, var_list, value_list, domain_list, 1, NoUndo)

\* Solver.make_assignment with domain_list=None: the domains the variables
\* have at the call.
make_assignment(h, var_list, value_list) ==
    Bind([i \in 1..Len(var_list) |-> h[var_list[i]].domain],
         LAMBDA domain_list :
            make_assignment_domains(h, var_list, value_list, domain_list))

\* Solver.make_assignment(*undo): the heap after the undo.
Undo(h, undo) == make_assignment_domains(h, undo[1], undo[2], undo[3]).heap

\* consistent without the calls of the predicates: every assignment passes.
consistent_always(h, var_name, c) == TRUE

\* Solver.consistent: no constraint naming var_name whose variables are all
\* assigned is violated.
consistent(h, var_name, c) ==
    \A k \in 1..Len(c.constraints) :
        IsIn(var_name, c.constraints[k].var_names) =>
           \A arg_list \in {ArgList(h, c, c.constraints[k])} :
              (\A i \in 1..Len(arg_list) : arg_list[i].value # None)
              => Satisfied(c.constraints[k], arg_list)

\* Whether constraint names a variable that is not in problem c.
HasUnknownName(c, constraint) ==
    \E i \in 1..Len(constraint.var_names) :
        ~DictHas(c.var_dict, constraint.var_names[i])

\* Whether Solver.consistent raises KeyError: a constraint naming var_name
\* names a variable that is not in the problem, so the lookup
\* csp.var_dict[name] fails, and no constraint before it has made consistent
\* return False.
consistent_raises(h, var_name, c) ==
    \E k \in 1..Len(c.constraints) :
       /\ IsIn(var_name, c.constraints[k].var_names)
       /\ HasUnknownName(c, c.constraints[k])
       /\ \A j \in 1..(k - 1) :
             (/\ IsIn(var_name, c.constraints[j].var_names)
              /\ ~HasUnknownName(c, c.constraints[j])
              /\ \A i \in 1..Len(c.constraints[j].var_names) :
                    h[DictGet(c.var_dict, c.constraints[j].var_names[i])].value
                       # None)
             => Satisfied(c.constraints[j], ArgList(h, c, c.constraints[j]))

\* The values of unassigned_var's domain, from position k on, that make the
\* constraint false when bound to it (forward_check's inner loop): each value
\* is bound with make_assignment, the predicate is called, and the binding is
\* undone.  Returns the heap after the loop and the invalid values.
RECURSIVE ForwardCheckValues(_, _, _, _, _, _, _)
ForwardCheckValues(h, c, constraint, unassigned_var, values, k, invalid) ==
    IF k > Len(values) THEN [heap |-> h, invalid_values |-> invalid]
    ELSE Bind(make_assignment(h, <<unassigned_var>>, <<values[k]>>),
           LAMBDA undo_assign :
             Bind(<<Undo(undo_assign.heap, undo_assign.undo),
                    IF ~Satisfied(constraint, ArgList(undo_assign.heap, c, constraint))
                    THEN Append(invalid, values[k]) ELSE invalid>>,
               LAMBDA n : ForwardCheckValues(n[1], c, constraint, unassigned_var,
                                             values, k + 1, n[2])))

\* Prune with the filter inverted: the invalid values are the ones kept.
Prune_keeps_invalid(h, var, invalid_values) ==
    [h EXCEPT ![var].domain =
        SelectSeq(h[var].domain, LAMBDA v : IsIn(v, invalid_values))]

\* unassigned_var.domain = [v for v in unassigned_var.domain
\*                          if v not in invalid_values]
Prune(h, var, invalid_values) ==
    [h EXCEPT ![var].domain =
        SelectSeq(h[var].domain, LAMBDA v : ~IsIn(v, invalid_values))]

\* forward_check that stops after the first constraint naming var.
ForwardCheckConstraints_first_only(h, c, constraints, k) ==
    IF k > Len(constraints) THEN h
    ELSE Bind(SelectSeq([i \in 1..Len(constraints[k].var_names) |->
                            DictGet(c.var_dict, constraints[k].var_names[i])],
                        LAMBDA id : h[id].value = None),
           LAMBDA unassigned_vars :
             IF Len(unassigned_vars) = 1
             THEN Bind(ForwardCheckValues(h, c, constraints[k], unassigned_vars[1],
                                          h[unassigned_vars[1]].domain, 1, <<>>),
                    LAMBDA r : Prune(r.heap, unassigned_vars[1], r.invalid_values))
             ELSE h)

\* forward_check's loop over the constraints naming var, from position k on.
RECURSIVE ForwardCheckConstraints(_, _, _, _)
ForwardCheckConstraints(h, c, constraints, k) ==
    IF k > Len(constraints) THEN h
    ELSE Bind(SelectSeq([i \in 1..Len(constraints[k].var_names) |->
                            DictGet(c.var_dict, constraints[k].var_names[i])],
                        LAMBDA id : h[id].value = None),
           LAMBDA unassigned_vars :
             IF Len(unassigned_vars) = 1
             THEN Bind(ForwardCheckValues(h, c, constraints[k], unassigned_vars[1],
                                          h[unassigned_vars[1]].domain, 1, <<>>),
                    LAMBDA r :
                      Bind(Prune(r.heap, unassigned_vars[1], r.invalid_values),
                        LAMBDA h2 : ForwardCheckConstraints(h2, c, constraints, k + 1)))
             ELSE ForwardCheckConstraints(h, c, constraints, k + 1))

\* forward_check's loop over var_list, from position k on.
RECURSIVE ForwardCheckVars(_, _, _, _)
ForwardCheckVars(h, c, var_list, k) ==
    IF k > Len(var_list) THEN h
    ELSE Bind(get_constraints_with(c, h[var_list[k]].name),
           LAMBDA constraints :
             Bind(ForwardCheckConstraints(h, c, constraints, 1),
               LAMBDA h2 : ForwardCheckVars(h2, c, var_list, k + 1)))

\* forward_check with orig_domains taken after the pruning instead of before
\* it.
forward_check_saves_pruned(h, var_list, c) ==
    Bind(ForwardCheckVars(h, c, var_list, 1),
      LAMBDA pruned :
        [heap |-> pruned,
         orig_domains |-> DictFrom([i \in 1..Len(c.var_list) |->
                    <<pruned[c.var_list[i]].name, pruned[c.var_list[i]].domain>>])])

\* Solver.forward_check(var_list, csp): the heap after pruning, and
\* orig_domains, the {name: domain} dict taken before it.
forward_check(h, var_list, c) ==
    [heap |-> ForwardCheckVars(h, c, var_list, 1),
     orig_domains |-> DictFrom([i \in 1..Len(c.var_list) |->
                        <<h[c.var_list[i]].name, h[c.var_list[i]].domain>>])]

\* restore_domains that leaves the pruned domains as they are.
restore_domains_skipped(h, domains, c) == h

\* Solver.restore_domains(domains, csp)
RECURSIVE RestoreDomainsFrom(_, _, _, _)
RestoreDomainsFrom(h, domains, c, k) ==
    IF k > Len(domains) THEN h
    ELSE Bind([h EXCEPT ![DictGet(c.var_dict, domains[k][1])].domain = domains[k][2]],
           LAMBDA h2 : RestoreDomainsFrom(h2, domains, c, k + 1))

restore_domains(h, domains, c) == RestoreDomainsFrom(h, domains, c, 1)

\* select_unassigned_var without the key of min(): the first unassigned
\* variable, whatever the size of its domain.
select_unassigned_var_first(h, var_list) ==
    Bind(SelectSeq(var_list, LAMBDA id : h[id].value = None),
      LAMBDA unassigned : unassigned[1])

\* Solver.select_unassigned_var: min() returns the first of the unassigned
\* variables with the fewest values in its domain.
select_unassigned_var(h, var_list) ==
    Bind(SelectSeq(var_list, LAMBDA id : h[id].value = None),
      LAMBDA unassigned :
        unassigned[CHOOSE i \in 1..Len(unassigned) :
            /\ \A j \in 1..Len(unassigned) :
                  Len(h[unassigned[i]].domain) <= Len(h[unassigned[j]].domain)
            /\ \A j \in 1..(i - 1) :
                  Len(h[unassigned[j]].domain) > Len(h[unassigned[i]].domain)])

\* itertools.product(*domains): the tuples in its order, the last position
\* varying fastest.
RECURSIVE Product(_)
RECURSIVE ProductPrepend(_, _, _)
ProductPrepend(values, rest, k) ==
    IF k > Len(values) THEN <<>>
    ELSE [i \in 1..Len(rest) |-> <<values[k]>> \o rest[i]]
         \o ProductPrepend(values, rest, k + 1)

Product(domains) ==
    IF domains = <<>> THEN << <<>> >>
    ELSE Bind(Product(Tail(domains)),
           LAMBDA rest : ProductPrepend(Head(domains), rest, 1))

\* order_domain's search of the remaining variables' values, from tuple k
\* on: each tuple is bound, the predicate is called on the constraint's
\* variables (found by name in merge_dicts(partial_assignment, {_v.name: _v
\* for the remaining variables})), the binding is undone, and the search
\* stops at the first tuple that satisfies the constraint.
RECURSIVE RemainingValid(_, _, _, _, _, _)
RemainingValid(h, constraint, partial_assignment, remaining_vars, tuples, k) ==
    IF k > Len(tuples) THEN [heap |-> h, valid |-> FALSE]
    ELSE Bind(make_assignment(h, remaining_vars, tuples[k]),
           LAMBDA undo_remaining_assign :
             Bind(<<Undo(undo_remaining_assign.heap, undo_remaining_assign.undo),
                    Bind(DictFrom(partial_assignment \o
                            [i \in 1..Len(remaining_vars) |->
                               <<undo_remaining_assign.heap[remaining_vars[i]].name,
                                 remaining_vars[i]>>]),
                      LAMBDA assignment :
                        Satisfied(constraint,
                            [i \in 1..Len(constraint.var_names) |->
                                undo_remaining_assign.heap[
                                    DictGet(assignment, constraint.var_names[i])]]))>>,
               LAMBDA n :
                 IF n[2] THEN [heap |-> n[1], valid |-> TRUE]
                 ELSE RemainingValid(n[1], constraint, partial_assignment,
                                     remaining_vars, tuples, k + 1)))

\* Whether (var = value, other_var = other_value), already bound in h, is a
\* valid partial assignment of the constraint, and the heap after the test.
PartialValid(h, constraint, var, other_var, others) ==
    Bind(<<DictFrom(<< <<h[var].name, var>>,
                       <<h[other_var].name, other_var>> >>),
           SelectSeq(others, LAMBDA id : id # other_var)>>,
      LAMBDA p :
        IF p[2] # <<>>
        THEN Bind(Product([i \in 1..Len(p[2]) |-> h[p[2][i]].domain]),
               LAMBDA tuples : RemainingValid(h, constraint, p[1], p[2], tuples, 1))
        ELSE [heap |-> h,
              valid |-> Satisfied(constraint,
                  [i \in 1..Len(constraint.var_names) |->
                      h[DictGet(p[1], constraint.var_names[i])]])])

\* _num_pruned's loop over the values of other_var, from position k on:
\* (var = value, other_var = other_value) is bound, tested and undone.
RECURSIVE PrunedValues(_, _, _, _, _, _, _, _, _)
PrunedValues(h, constraint, var, value, other_var, others, values, k, invalid) ==
    IF k > Len(values) THEN [heap |-> h, invalid_values |-> invalid]
    ELSE Bind(make_assignment(h, <<var, other_var>>, <<value, values[k]>>),
           LAMBDA undo_partial_assign :
             Bind(PartialValid(undo_partial_assign.heap, constraint, var,
                               other_var, others),
               LAMBDA r :
                 Bind(<<Undo(r.heap, undo_partial_assign.undo),
                        IF r.valid THEN invalid ELSE Append(invalid, values[k])>>,
                   LAMBDA n : PrunedValues(n[1], constraint, var, value, other_var,
                                           others, values, k + 1, n[2]))))

\* _num_pruned's loop over the other variables of one constraint.
RECURSIVE PrunedOthers(_, _, _, _, _, _)
PrunedOthers(h, constraint, var, value, others, k) ==
    IF k > Len(others) THEN h
    ELSE Bind(PrunedValues(h, constraint, var, value, others[k], others,
                           h[others[k]].domain, 1, <<>>),
           LAMBDA r :
             Bind(Prune(r.heap, others[k], r.invalid_values),
               LAMBDA h2 : PrunedOthers(h2, constraint, var, value, others, k + 1)))

\* _num_pruned's loop over the constraints, from position k on.
RECURSIVE PrunedConstraints(_, _, _, _, _, _)
PrunedConstraints(h, c, var, value, other_vars, k) ==
    IF k > Len(c.constraints) THEN h
    ELSE IF ~IsIn(h[var].name, c.constraints[k].var_names)
         THEN PrunedConstraints(h, c, var, value, other_vars, k + 1)
         ELSE Bind(SelectSeq(other_vars,
                     LAMBDA id : IsIn(h[id].name, c.constraints[k].var_names)),
                LAMBDA others :
                  Bind(PrunedOthers(h, c.constraints[k], var, value, others, 1),
                    LAMBDA h2 : PrunedConstraints(h2, c, var, value, other_vars, k + 1)))

\* _num_pruned without the deep copy of the other variables: the bindings
\* and the pruning are made on the engine's own variables.
num_pruned_no_copy(h, c, var, value) ==
    Bind(SelectSeq(c.var_list, LAMBDA id : h[id].name # h[var].name),
      LAMBDA other_vars :
        Bind(PrunedConstraints(h, c, var, value, other_vars, 1),
          LAMBDA work :
            [heap |-> work,
             count |->
                SumSeq([i \in 1..Len(other_vars) |-> Len(h[other_vars[i]].domain)])
                - SumSeq([i \in 1..Len(other_vars) |-> Len(work[other_vars[i]].domain)])]))

\* order_domain._num_pruned(value): how many values leave the domains of the
\* other variables when var takes value.  The other variables are deep
\* copies, so of the objects the engine holds only var is touched: the heap
\* returned is h with var as the computation leaves it (and with the
\* history field of the copies).
num_pruned(h, c, var, value) ==
    Bind(SelectSeq(c.var_list, LAMBDA id : h[id].name # h[var].name),
      LAMBDA other_vars :
        Bind(PrunedConstraints(h, c, var, value, other_vars, 1),
          LAMBDA work :
            [heap |-> [id \in 1..Len(h) |->
                         IF id = var THEN work[var]
                         ELSE [h[id] EXCEPT !.bound_in_domain =
                                               work[id].bound_in_domain]],
             count |->
                SumSeq([i \in 1..Len(other_vars) |-> Len(h[other_vars[i]].domain)])
                - SumSeq([i \in 1..Len(other_vars) |-> Len(work[other_vars[i]].domain)])]))

\* The keys of sorted(): _num_pruned of each value in turn, from position k.
RECURSIVE OrderKeys(_, _, _, _, _, _)
OrderKeys(h, c, var, values, k, keys) ==
    IF k > Len(values) THEN [heap |-> h, keys |-> keys]
    ELSE Bind(num_pruned(h, c, var, values[k]),
           LAMBDA r :
             Bind(Append(keys, r.count),
               LAMBDA keys2 : OrderKeys(r.heap, c, var, values, k + 1, keys2)))

\* sorted(values, key, reverse=True): descending and stable.
SortedByKey_descending(values, keys) ==
    [r \in 1..Len(values) |->
        values[CHOOSE i \in 1..Len(values) :
            r = 1 + Cardinality({j \in 1..Len(values) :
                        keys[j] > keys[i] \/ (keys[j] = keys[i] /\ j < i)})]]

\* sorted(values, key): ascending and stable.
SortedByKey(values, keys) ==
    [r \in 1..Len(values) |->
        values[CHOOSE i \in 1..Len(values) :
            r = 1 + Cardinality({j \in 1..Len(values) :
                        keys[j] < keys[i] \/ (keys[j] = keys[i] /\ j < i)})]]

\* Solver.order_domain(var, csp): var's domain by ascending _num_pruned, and
\* the heap the computation leaves.
order_domain(h, var, c) ==
    Bind(OrderKeys(h, c, var, h[var].domain, 1, <<>>),
      LAMBDA r : [heap |-> r.heap, order |-> SortedByKey(h[var].domain, r.keys)])

\* backtracking's loop that fills _domains, from position k of var_list on.
RECURSIVE OrderDomains(_, _, _, _)
OrderDomains(h, c, k, domains) ==
    IF k > Len(c.var_list) THEN [heap |-> h, domains |-> domains]
    ELSE Bind(order_domain(h, c.var_list[k], c),
           LAMBDA r :
             Bind(DictSet(domains, h[c.var_list[k]].name, r.order),
               LAMBDA domains2 : OrderDomains(r.heap, c, k + 1, domains2)))

\* ------------------------------------------------------------------------
\* State
\* ------------------------------------------------------------------------

VARIABLES
    heap,       \* the Variable objects, by object id
    csp,        \* the caller's CSP: var_list, var_dict, constraints
    call,       \* the arguments of the last solve call
    pc,         \* where the solve call is: "idle" between calls
    result,     \* what the last solve call returned or raised
    csp_copy,   \* _csp, the engine's deep copy of the CSP
    domains,    \* _domains, backtracking's value order of each variable
    solutions,  \* solutions, the list both engines append to
    info_i,     \* info['i'], the number of recursive calls made
    stack,      \* the frames of _recursive_backtracking, innermost last
    ret,        \* the value the last recursive call returned: <<>> is None
    mc_i,       \* i, the iteration counter of min_conflicts
    trace,      \* the (variable, value) assignments backtracking has made
    prev        \* the previous call, when it was the same backtracking call

vars == <<heap, csp, call, pc, result, csp_copy, domains, solutions, info_i,
          stack, ret, mc_i, trace, prev>>

engine == <<csp_copy, domains, solutions, info_i, stack, ret, mc_i>>

\* What a solve call gives back: None, a solution dict, a list of solutions
\* or an exception.
NoResult == [kind |-> "no call", dict |-> <<>>, list |-> <<>>, exc |-> ""]
RNone == [kind |-> "None", dict |-> <<>>, list |-> <<>>, exc |-> ""]
RDict(d) == [kind |-> "dict", dict |-> d, list |-> <<>>, exc |-> ""]
RList(l) == [kind |-> "list", dict |-> <<>>, list |-> l, exc |-> ""]
RRaise(e) == [kind |-> "raise", dict |-> <<>>, list |-> <<>>, exc |-> e]

NoCsp == [var_list |-> <<>>, var_dict |-> <<>>, constraints |-> <<>>]

NoCall == [algorithm |-> "", take_first |-> TRUE, verbose |-> FALSE,
           progress_freq |-> DefaultProgressFreq,
           iter_limit |-> DefaultIterLimit, uniqueness |-> FALSE]

NoPrev == [call |-> NoCall, result |-> NoResult, trace |-> <<>>]

\* ------------------------------------------------------------------------
\* The problems and the calls of the model
\* ------------------------------------------------------------------------

\* The names of the variables, in the order they are added.
Names == <<"x", "y", "z">>

\* The domains a variable is created with: empty, two values, all values.
DomainChoices == {<<>>, <<1, 2>>, [i \in 1..MaxVal |-> i]}

\* The constraints a problem is built from, in the order they are added.
ConstraintChoices ==
    <<Constraint(<<"x", "y">>, "ne"),
      Constraint(<<"x", "y">>, "lt"),
      Constraint(<<"z", "y">>, "lt"),
      Constraint(<<"x", "y", "z">>, "between")>>

\* The constraint lists over the first n names: at most two of the
\* constraints whose variables are all among them, in catalogue order.
ConstraintLists(n) ==
    LET ok == {k \in 1..Len(ConstraintChoices) :
                  \A i \in 1..Len(ConstraintChoices[k].var_names) :
                      \E j \in 1..n : Names[j] = ConstraintChoices[k].var_names[i]}
    IN {<<>>} \cup {<<ConstraintChoices[k]>> : k \in ok}
       \cup {<<ConstraintChoices[p[1]], ConstraintChoices[p[2]]>> :
                p \in {q \in ok \X ok : q[1] < q[2]}}

\* The keyword arguments of a call.
Algorithms == {"backtracking", "min_conflicts"}

BacktrackingCalls ==
    {[algorithm |-> "backtracking", take_first |-> tf, verbose |-> FALSE,
      progress_freq |-> DefaultProgressFreq, iter_limit |-> DefaultIterLimit,
      uniqueness |-> FALSE] : tf \in BOOLEAN}

MinConflictsCalls ==
    {[algorithm |-> "min_conflicts", take_first |-> tf, verbose |-> FALSE,
      progress_freq |-> DefaultProgressFreq, iter_limit |-> il,
      uniqueness |-> u] :
        tf \in BOOLEAN, il \in (0..MaxIterLimit) \cup {DefaultIterLimit},
        u \in BOOLEAN}

UnknownCalls ==
    {[algorithm |-> "simulated_annealing", take_first |-> tf, verbose |-> FALSE,
      progress_freq |-> DefaultProgressFreq, iter_limit |-> DefaultIterLimit,
      uniqueness |-> FALSE] : tf \in BOOLEAN}

\* Backtracking calls that ask for a progress report every progress_freq
\* recursive calls.
ProgressCalls ==
    {[algorithm |-> "backtracking", take_first |-> tf, verbose |-> FALSE,
      progress_freq |-> pf, iter_limit |-> DefaultIterLimit,
      uniqueness |-> FALSE] : tf \in BOOLEAN, pf \in {0, 1, 2}}

Calls ==
    BacktrackingCalls \cup MinConflictsCalls \cup UnknownCalls \cup ProgressCalls

\* ------------------------------------------------------------------------
\* Init: a script has built its problem and has not solved it yet
\* ------------------------------------------------------------------------

Init ==
    /\ \E n \in 0..Len(Names) :
         \E doms \in [1..n -> DomainChoices] :
           \E cons \in ConstraintLists(n) :
             /\ heap = [i \in 1..n |-> Variable(Names[i], doms[i])]
             /\ csp = CSP(n, cons, Names)
    /\ call = NoCall
    /\ pc = "idle"
    /\ result = NoResult
    /\ csp_copy = NoCsp
    /\ domains = <<>>
    /\ solutions = <<>>
    /\ info_i = 0
    /\ stack = <<>>
    /\ ret = <<>>
    /\ mc_i = 0
    /\ trace = <<>>
    /\ prev = NoPrev

\* The objects the caller's CSP still refers to once a call has ended: the
\* engine's copies are garbage.
LiveHeap(h, c) ==
    SubSeq(h, 1, Cardinality(Range(c.var_list)
                    \cup {c.var_dict[i][2] : i \in 1..Len(c.var_dict)}))

\* The end of a solve call: the value or the exception goes to the caller
\* and the engine's locals are gone.
Finish(h, r) ==
    /\ result' = r
    /\ heap' = LiveHeap(h, csp)
    /\ pc' = "idle"
    /\ csp_copy' = NoCsp
    /\ domains' = <<>>
    /\ solutions' = <<>>
    /\ info_i' = 0
    /\ stack' = <<>>
    /\ ret' = <<>>
    /\ mc_i' = 0

\* ------------------------------------------------------------------------
\* Solver.solve
\* ------------------------------------------------------------------------

\* An exception raised inside an engine, as it leaves solve: the call of the
\* engine is inside the try block, so a KeyError from the engine is turned
\* into NotImplementedError like the KeyError of the lookup in ALGORITHMS;
\* any other exception passes.
Raised(exc) ==
    IF exc = "KeyError" THEN RRaise("NotImplementedError") ELSE RRaise(exc)

\* solve with the deep copy made before the algorithm is looked up: the
\* unknown name is met with the copy already made.
Solve_copy_first(kwargs) ==
    /\ pc = "idle"
    /\ call' = kwargs
    /\ trace' = <<>>
    /\ prev' = IF call = kwargs /\ kwargs.algorithm = "backtracking"
               THEN [call |-> call, result |-> result, trace |-> trace]
               ELSE NoPrev
    /\ IF kwargs.algorithm \in Algorithms
       THEN /\ pc' = kwargs.algorithm
            /\ result' = NoResult
            /\ UNCHANGED <<heap, engine>>
       ELSE /\ pc' = "idle"
            /\ result' = RRaise("NotImplementedError")
            /\ heap' = DeepCopyHeap(heap, csp)
            /\ UNCHANGED engine
    /\ UNCHANGED csp

\* Solver.solve(algorithm, take_first, **kwargs): the lookup in ALGORITHMS
\* raises KeyError for an unknown name, which solve turns into
\* NotImplementedError; a known name enters its engine.
Solve(kwargs) ==
    /\ pc = "idle"
    /\ call' = kwargs
    /\ trace' = <<>>
    /\ prev' = IF call = kwargs /\ kwargs.algorithm = "backtracking"
               THEN [call |-> call, result |-> result, trace |-> trace]
               ELSE NoPrev
    /\ IF kwargs.algorithm \in Algorithms
       THEN /\ pc' = kwargs.algorithm
            /\ result' = NoResult
            /\ UNCHANGED <<heap, engine>>
       ELSE /\ pc' = "idle"
            /\ result' = RRaise("NotImplementedError")
            /\ UNCHANGED <<heap, engine>>
    /\ UNCHANGED csp

\* CSP.get_solution(algorithm, **kwargs)
get_solution(kwargs) == kwargs.take_first /\ Solve(kwargs)

\* CSP.get_all_solutions(algorithm, **kwargs)
get_all_solutions(kwargs) == ~kwargs.take_first /\ Solve(kwargs)

\* ------------------------------------------------------------------------
\* Solver.backtracking
\* ------------------------------------------------------------------------

\* A frame of _recursive_backtracking: the variable it branches on, the
\* position in that variable's value order, and what it needs to undo the
\* candidate it is trying.  saved is a history field, not a local of the
\* function: the heap as it was just before the last candidate that reached
\* the recursive call was assigned (<<>> before the first one).
Frame(next_var) ==
    [next_var |-> next_var, idx |-> 1, undo_assign |-> NoUndo,
     orig_domains |-> <<>>, saved |-> <<>>]

\* A recursive call whose value is lost on the way to its caller: the caller
\* gets None whatever was returned.
ReturnTo_none(frames, r) ==
    /\ stack' = frames
    /\ ret' = <<>>
    /\ pc' = IF frames = <<>> THEN "bt_done" ELSE "bt_resume"

\* A recursive call returns value r (<<>> is None) to its caller, or to
\* backtracking itself when it was the outermost call.
ReturnTo(frames, r) ==
    /\ stack' = frames
    /\ ret' = r
    /\ pc' = IF frames = <<>> THEN "bt_done" ELSE "bt_resume"

\* backtracking, up to the first recursive call: the deep copy, the empty
\* solutions list and the value order of every variable.
Backtracking_Setup ==
    /\ pc = "backtracking"
    /\ \E _csp \in {DeepCopyCsp(heap, csp)} :
         \E r \in {OrderDomains(DeepCopyHeap(heap, csp), _csp, 1, <<>>)} :
            /\ heap' = r.heap
            /\ csp_copy' = _csp
            /\ domains' = r.domains
    /\ solutions' = <<>>
    /\ info_i' = 0
    /\ stack' = <<>>
    /\ ret' = <<>>
    /\ pc' = "bt_enter"
    /\ UNCHANGED <<csp, call, result, mc_i, trace, prev>>

\* _recursive_backtracking from its entry to the start of its loop: the
\* progress report (info['i'] % progress_freq raises ZeroDivisionError when
\* progress_freq is 0, and num_constraints_violated raises TypeError when a
\* predicate compares an unassigned variable), the solution when every
\* variable is assigned, else the choice of the variable to branch on.
RecursiveBacktracking_Enter ==
    /\ pc = "bt_enter"
    /\ IF call.progress_freq = 0
       THEN /\ Finish(heap, RRaise("ZeroDivisionError"))
            /\ UNCHANGED <<csp, call, trace, prev>>
       ELSE IF /\ (info_i + 1) % call.progress_freq = 0
               /\ EvaluationRaises(heap, csp_copy)
       THEN /\ Finish(heap, RRaise("TypeError"))
            /\ UNCHANGED <<csp, call, trace, prev>>
       ELSE /\ info_i' = info_i + 1
            /\ IF all_variables_assigned(heap, csp_copy)
               THEN \E _solution \in {SolutionOf(heap, csp_copy)} :
                       /\ solutions' = Append(solutions, _solution)
                       /\ ReturnTo(stack, <<_solution>>)
               ELSE /\ stack' = Append(stack,
                          Frame(select_unassigned_var(heap, csp_copy.var_list)))
                    /\ pc' = "bt_loop"
                    /\ UNCHANGED <<solutions, ret>>
            /\ UNCHANGED <<heap, csp, call, result, csp_copy, domains, mc_i,
                           trace, prev>>

\* The body of the loop for a value that is still in the domain: it is
\* assigned, and when the assignment is consistent the domains are forward
\* checked and the search recurses, else the assignment is undone.
TryValue(f, next_value) ==
    \E undo_assign \in {make_assignment(heap, <<f.next_var>>, <<next_value>>)} :
       /\ trace' = Append(trace, <<heap[f.next_var].name, next_value>>)
       /\ IF consistent(undo_assign.heap, heap[f.next_var].name, csp_copy)
          THEN \E checked \in {forward_check(undo_assign.heap, <<f.next_var>>, csp_copy)} :
                  /\ heap' = checked.heap
                  /\ stack' = [stack EXCEPT ![Len(stack)] =
                                 [f EXCEPT !.undo_assign = undo_assign.undo,
                                           !.orig_domains = checked.orig_domains,
                                           !.saved = heap]]
                  /\ pc' = "bt_enter"
                  /\ UNCHANGED ret
          ELSE /\ heap' = Undo(undo_assign.heap, undo_assign.undo)
               /\ stack' = [stack EXCEPT ![Len(stack)] = [f EXCEPT !.idx = f.idx + 1]]
               /\ UNCHANGED <<ret, pc>>

\* One turn of the loop over the value order of next_var: the end of the
\* loop returns None; a value no longer in the domain is skipped; another is
\* tried, and the call ends there when consistent raises KeyError on the
\* value assigned.
RecursiveBacktracking_Loop ==
    /\ pc = "bt_loop"
    /\ \E f \in {stack[Len(stack)]} :
         \E order \in {DictGet(domains, heap[f.next_var].name)} :
            IF f.idx > Len(order)
            THEN /\ ReturnTo(SubSeq(stack, 1, Len(stack) - 1), <<>>)
                 /\ UNCHANGED <<heap, trace, result, csp_copy, domains,
                                solutions, info_i, mc_i>>
            ELSE IF ~IsIn(order[f.idx], heap[f.next_var].domain)
                 THEN /\ stack' = [stack EXCEPT ![Len(stack)] =
                                      [f EXCEPT !.idx = f.idx + 1]]
                      /\ UNCHANGED <<heap, trace, ret, pc, result, csp_copy,
                                     domains, solutions, info_i, mc_i>>
            ELSE IF consistent_raises(
                       make_assignment(heap, <<f.next_var>>, <<order[f.idx]>>).heap,
                       heap[f.next_var].name, csp_copy)
                 THEN /\ trace' = Append(trace,
                                      <<heap[f.next_var].name, order[f.idx]>>)
                      /\ Finish(make_assignment(heap, <<f.next_var>>,
                                                <<order[f.idx]>>).heap,
                                Raised("KeyError"))
                 ELSE /\ TryValue(f, order[f.idx])
                      /\ UNCHANGED <<result, csp_copy, domains, solutions,
                                     info_i, mc_i>>
    /\ UNCHANGED <<csp, call, prev>>

\* The step after the recursive call with solutions holding the variables
\* themselves instead of their values: once the candidate is undone, every
\* recorded mapping shows the values the variables hold now.
RecursiveBacktracking_Resume_live_solutions ==
    /\ pc = "bt_resume"
    /\ \E f \in {stack[Len(stack)]} :
          IF ret # <<>> /\ call.take_first
          THEN /\ ReturnTo(SubSeq(stack, 1, Len(stack) - 1), ret)
               /\ UNCHANGED <<heap, solutions>>
          ELSE /\ \E restored \in {restore_domains(heap, f.orig_domains, csp_copy)} :
                    \E undone \in {Undo(restored, f.undo_assign)} :
                       /\ heap' = undone
                       /\ solutions' = [i \in 1..Len(solutions) |->
                                           SolutionOf(undone, csp_copy)]
               /\ stack' = [stack EXCEPT ![Len(stack)] =
                               [f EXCEPT !.idx = f.idx + 1,
                                         !.undo_assign = NoUndo,
                                         !.orig_domains = <<>>]]
               /\ pc' = "bt_loop"
               /\ UNCHANGED ret
    /\ UNCHANGED <<csp, call, result, csp_copy, domains, info_i,
                   mc_i, trace, prev>>

\* After the recursive call: with take_first a solution is returned at once;
\* otherwise the domains are restored, the assignment is undone and the loop
\* goes on.
RecursiveBacktracking_Resume ==
    /\ pc = "bt_resume"
    /\ \E f \in {stack[Len(stack)]} :
          IF ret # <<>> /\ call.take_first
          THEN /\ ReturnTo(SubSeq(stack, 1, Len(stack) - 1), ret)
               /\ UNCHANGED heap
          ELSE /\ \E restored \in {restore_domains(heap, f.orig_domains, csp_copy)} :
                     heap' = Undo(restored, f.undo_assign)
               /\ stack' = [stack EXCEPT ![Len(stack)] =
                               [f EXCEPT !.idx = f.idx + 1,
                                         !.undo_assign = NoUndo,
                                         !.orig_domains = <<>>]]
               /\ pc' = "bt_loop"
               /\ UNCHANGED ret
    /\ UNCHANGED <<csp, call, result, csp_copy, domains, solutions, info_i,
                   mc_i, trace, prev>>

\* backtracking's return without the test of take_first: the solutions list
\* in every case.
Backtracking_Return_solutions ==
    /\ pc = "bt_done"
    /\ Finish(heap, RList(solutions))
    /\ UNCHANGED <<csp, call, trace, prev>>

\* backtracking's return: the outermost call's value with take_first, the
\* solutions list otherwise.
Backtracking_Return ==
    /\ pc = "bt_done"
    /\ Finish(heap, IF call.take_first
                    THEN (IF ret = <<>> THEN RNone ELSE RDict(ret[1]))
                    ELSE RList(solutions))
    /\ UNCHANGED <<csp, call, trace, prev>>

NextBacktracking ==
    \/ \E kwargs \in BacktrackingCalls : get_solution(kwargs)
    \/ \E kwargs \in BacktrackingCalls : get_all_solutions(kwargs)
    \/ Backtracking_Setup
    \/ RecursiveBacktracking_Enter
    \/ RecursiveBacktracking_Loop
    \/ RecursiveBacktracking_Resume
    \/ Backtracking_Return

SpecBacktracking == Init /\ [][NextBacktracking]_vars

\* ------------------------------------------------------------------------
\* Solver.min_conflicts
\* ------------------------------------------------------------------------

\* What random.choice(tuple(choices)) may return; no value when choices is
\* empty (random.choice raises IndexError).
RandomChoice(choices) == Range(choices)

\* Solver.make_random_assignment from position k of var_list on, for every
\* outcome of random.choice: the heaps it may leave, with ok false when
\* random.choice raised IndexError on an empty domain.
RECURSIVE RandomAssignmentFrom(_, _, _, _, _)
RandomAssignmentFrom(h, c, uniqueness, k, chosen) ==
    IF k > Len(c.var_list) THEN {[heap |-> h, ok |-> TRUE]}
    ELSE UNION {
           IF choices = <<>> THEN {[heap |-> h, ok |-> FALSE]}
           ELSE UNION {
                  UNION {RandomAssignmentFrom(h2, c, uniqueness, k + 1,
                                              chosen \cup {value}) :
                         h2 \in {make_assignment(h, <<c.var_list[k]>>, <<value>>).heap}} :
                  value \in RandomChoice(choices)} :
           choices \in {
              IF uniqueness /\ \E v \in Range(h[c.var_list[k]].domain) : v \notin chosen
              THEN SelectSeq(h[c.var_list[k]].domain, LAMBDA v : v \notin chosen)
              ELSE h[c.var_list[k]].domain}}

make_random_assignment(h, c, uniqueness) ==
    RandomAssignmentFrom(h, c, uniqueness, 1, {})

\* The constraints that are not satisfied, by position.
Violated(h, c) ==
    {k \in 1..Len(c.constraints) :
        ~Satisfied(c.constraints[k], ArgList(h, c, c.constraints[k]))}

\* conflict_count[name] of select_most_conflicting_var: one for every
\* occurrence of name in the var_names of a violated constraint.
ConflictCount(c, violated, name) ==
    SumSeq([k \in 1..Len(c.constraints) |->
        IF k \in violated
        THEN Cardinality({i \in 1..Len(c.constraints[k].var_names) :
                            c.constraints[k].var_names[i] = name})
        ELSE 0])

\* Solver.select_most_conflicting_var: the variables random.choice may
\* return; none when no constraint is violated (max() of an empty sequence
\* raises ValueError).
select_most_conflicting_var(h, c) ==
    LET Pick(violated) ==
          LET names == UNION {Range(c.constraints[k].var_names) : k \in violated}
          IN {DictGet(c.var_dict, name) :
                name \in {n \in names :
                    \A m \in names :
                        ConflictCount(c, violated, m) <= ConflictCount(c, violated, n)}}
    IN UNION {Pick(violated) : violated \in {Violated(h, c)}}

\* next((var for var in csp.var_list if var.value == value), None): the
\* first variable holding value, as a sequence of at most one object.
FirstWithValue(h, c, value) ==
    Bind(SelectSeq(c.var_list, LAMBDA id : h[id].value = value),
      LAMBDA holders : IF holders = <<>> THEN <<>> ELSE <<holders[1]>>)

\* _assign_unique_value drawing from the initial domain of the first
\* variable of the problem instead of _other_var's own.
assign_unique_value_first_domain(h, c, _other_var) ==
    UNION {
      {make_assignment(h, <<_other_var>>, <<other_value>>) :
          other_value \in RandomChoice(IF other_domain = <<>>
                                       THEN h[c.var_list[1]].init_domain
                                       ELSE other_domain)} :
      other_domain \in {SelectSeq(h[c.var_list[1]].init_domain,
          LAMBDA v : \A i \in 1..Len(c.var_list) : h[c.var_list[i]].value # v)}}

\* assign_least_conflicting_value._assign_unique_value(_other_var), for every
\* outcome of random.choice: a value of the initial domain that no variable
\* holds, or any value of it when all are held, is assigned.
assign_unique_value(h, c, _other_var) ==
    UNION {
      {make_assignment(h, <<_other_var>>, <<other_value>>) :
          other_value \in RandomChoice(IF other_domain = <<>>
                                       THEN h[_other_var].init_domain
                                       ELSE other_domain)} :
      other_domain \in {SelectSeq(h[_other_var].init_domain,
          LAMBDA v : \A i \in 1..Len(c.var_list) : h[c.var_list[i]].value # v)}}

\* The loop of assign_least_conflicting_value over var.init_domain, from
\* position k on: var takes the value (and keeps it until the next turn), in
\* uniqueness mode a variable that held it is moved while the violated
\* constraints are counted, and moved back.  Returns every possible
\* [heap, counts], counts[i] being conflict_count of the i-th value.
RECURSIVE ConflictCounts(_, _, _, _, _, _)
ConflictCounts(h, c, var, uniqueness, k, counts) ==
    IF k > Len(h[var].init_domain) THEN {[heap |-> h, counts |-> counts]}
    ELSE UNION {
           UNION {
             IF uniqueness /\ other_var # <<>>
             THEN UNION {
                    UNION {ConflictCounts(h3, c, var, uniqueness, k + 1,
                              Append(counts, Cardinality(Violated(undo_other_assign.heap, c)))) :
                           h3 \in {Undo(undo_other_assign.heap, undo_other_assign.undo)}} :
                    undo_other_assign \in assign_unique_value(h1, c, other_var[1])}
             ELSE ConflictCounts(h1, c, var, uniqueness, k + 1,
                      Append(counts, Cardinality(Violated(h1, c)))) :
             h1 \in {make_assignment(h, <<var>>, <<h[var].init_domain[k]>>).heap}} :
           other_var \in {FirstWithValue(h, c, h[var].init_domain[k])}}

\* The end of assign_least_conflicting_value with max() for min(): one of
\* the values with the greatest count is chosen.
AssignLeast_greatest(h, c, var, uniqueness, orig_value, counts) ==
    UNION {
      UNION {
        UNION {
          UNION {
            IF uniqueness /\ other_var # <<>>
            THEN {[heap |-> moved.heap, lc_value |-> lc_value] :
                     moved \in assign_unique_value(h2, c, other_var[1])}
            ELSE {[heap |-> h2, lc_value |-> lc_value]} :
            h2 \in {make_assignment(h1, <<var>>, <<lc_value>>).heap}} :
          other_var \in {FirstWithValue(h1, c, lc_value)}} :
        lc_value \in {h1[var].init_domain[i] : i \in
            {j \in 1..Len(counts) : \A m \in 1..Len(counts) : counts[j] >= counts[m]}}} :
      h1 \in {make_assignment(h, <<var>>, <<orig_value>>).heap}}

\* The end of assign_least_conflicting_value once the counts are known: var
\* takes back its value, one of the values with the least count is chosen
\* and assigned, and in uniqueness mode the variable that held it is moved.
\* Returns every possible [heap, lc_value], lc_value being the value returned.
AssignLeast(h, c, var, uniqueness, orig_value, counts) ==
    UNION {
      UNION {
        UNION {
          UNION {
            IF uniqueness /\ other_var # <<>>
            THEN {[heap |-> moved.heap, lc_value |-> lc_value] :
                     moved \in assign_unique_value(h2, c, other_var[1])}
            ELSE {[heap |-> h2, lc_value |-> lc_value]} :
            h2 \in {make_assignment(h1, <<var>>, <<lc_value>>).heap}} :
          other_var \in {FirstWithValue(h1, c, lc_value)}} :
        lc_value \in {h1[var].init_domain[i] : i \in
            {j \in 1..Len(counts) : \A m \in 1..Len(counts) : counts[j] <= counts[m]}}} :
      h1 \in {make_assignment(h, <<var>>, <<orig_value>>).heap}}

\* assign_least_conflicting_value with the value var holds left out of the
\* candidates: its count is set above every possible count.
assign_least_conflicting_value_not_current(h, c, var, uniqueness) ==
    UNION {AssignLeast(r.heap, c, var, uniqueness, h[var].value,
                       [i \in 1..Len(r.counts) |->
                           IF h[var].init_domain[i] = h[var].value
                           THEN Len(c.constraints) + 1
                           ELSE r.counts[i]]) :
           r \in ConflictCounts(h, c, var, uniqueness, 1, <<>>)}

\* Solver.assign_least_conflicting_value(var, csp, uniqueness): the heaps it
\* may leave, each with the value it returns.
assign_least_conflicting_value(h, c, var, uniqueness) ==
    UNION {AssignLeast(r.heap, c, var, uniqueness, h[var].value, r.counts) :
           r \in ConflictCounts(h, c, var, uniqueness, 1, <<>>)}

\* min_conflicts up to its loop: the deep copy, the empty solutions list and
\* the random assignment, which raises IndexError on an empty domain.
MinConflicts_Setup ==
    /\ pc = "min_conflicts"
    /\ \E _csp \in {DeepCopyCsp(heap, csp)} :
         \E r \in make_random_assignment(DeepCopyHeap(heap, csp), _csp,
                                         call.uniqueness) :
            IF r.ok
            THEN /\ heap' = r.heap
                 /\ csp_copy' = _csp
                 /\ solutions' = <<>>
                 /\ mc_i' = 0
                 /\ pc' = "mc_loop"
                 /\ UNCHANGED <<result, domains, info_i, stack, ret>>
            ELSE Finish(r.heap, RRaise("IndexError"))
    /\ UNCHANGED <<csp, call, trace, prev>>

\* One turn of the loop of min_conflicts: a solved assignment is returned
\* with take_first and appended to solutions otherwise; then the most
\* conflicting variable is chosen, which raises ValueError when no
\* constraint is violated, and takes its least conflicting value.  With a
\* constraint that names a variable not in the problem, solved or else
\* select_most_conflicting_var raises KeyError at the lookup
\* csp.var_dict[name]: every variable is assigned, so the loop over the
\* constraints stops at nothing before it.
MinConflicts_Iterate ==
    /\ pc = "mc_loop"
    /\ mc_i < call.iter_limit
    /\ mc_i <= MaxIterLimit
    /\ IF \E k \in 1..Len(csp_copy.constraints) :
             HasUnknownName(csp_copy, csp_copy.constraints[k])
       THEN Finish(heap, Raised("KeyError"))
       ELSE IF solved(heap, csp_copy) /\ call.take_first
       THEN Finish(heap, RDict(SolutionOf(heap, csp_copy)))
       ELSE \E candidates \in {select_most_conflicting_var(heap, csp_copy)} :
              IF candidates = {}
              THEN Finish(heap, RRaise("ValueError"))
              ELSE /\ \E mc_var \in candidates :
                        \E r \in assign_least_conflicting_value(
                                     heap, csp_copy, mc_var, call.uniqueness) :
                           heap' = r.heap
                   /\ solutions' = IF solved(heap, csp_copy)
                                   THEN Append(solutions, SolutionOf(heap, csp_copy))
                                   ELSE solutions
                   /\ mc_i' = mc_i + 1
                   /\ UNCHANGED <<pc, result, csp_copy, domains, info_i, stack, ret>>
    /\ UNCHANGED <<csp, call, trace, prev>>

\* The end of the loop: None with take_first, the solutions list otherwise.
MinConflicts_Return ==
    /\ pc = "mc_loop"
    /\ ~(mc_i < call.iter_limit)
    /\ Finish(heap, IF call.take_first THEN RNone ELSE RList(solutions))
    /\ UNCHANGED <<csp, call, trace, prev>>

NextMinConflicts ==
    \/ \E kwargs \in MinConflictsCalls : get_solution(kwargs)
    \/ \E kwargs \in MinConflictsCalls : get_all_solutions(kwargs)
    \/ MinConflicts_Setup
    \/ MinConflicts_Iterate
    \/ MinConflicts_Return

SpecMinConflicts == Init /\ [][NextMinConflicts]_vars

\* ------------------------------------------------------------------------
\* The whole program
\* ------------------------------------------------------------------------

Next ==
    \/ \E kwargs \in Calls : get_solution(kwargs)
    \/ \E kwargs \in Calls : get_all_solutions(kwargs)
    \/ Backtracking_Setup
    \/ RecursiveBacktracking_Enter
    \/ RecursiveBacktracking_Loop
    \/ RecursiveBacktracking_Resume
    \/ Backtracking_Return
    \/ MinConflicts_Setup
    \/ MinConflicts_Iterate
    \/ MinConflicts_Return

Spec == Init /\ [][Next]_vars

\* ------------------------------------------------------------------------
\* Building a problem: CSP(), add_variable, add_constraint, reset, and the
\* caller's own use of Solver.make_assignment and Solver.forward_check
\* ------------------------------------------------------------------------

\* add_variable is called at most MaxVariables times and add_constraint at
\* most MaxConstraints times.
MaxVariables == 2

MaxConstraints == 1

\* The names the variables are created with: a name may be used again.
BuildNames == {"x", "y"}

\* The domains the variables are created with.
BuildDomains == {<<1>>, <<1, 2>>}

\* The constraints that are added: the last one names "w", which no
\* variable has.
BuildConstraints ==
    {Constraint(<<"x", "y">>, "ne"),
     Constraint(<<"x", "y">>, "lt"),
     Constraint(<<"x", "w">>, "ne")}

\* A call of the data model or of a static method of Solver, kept in call
\* by its name.
ApiCall(name) == [NoCall EXCEPT !.algorithm = name]

\* The call that reset follows, with what it returned.
Before == [call |-> call, result |-> result, trace |-> <<>>]

\* CSP(): no variable, no constraint.
InitBuild ==
    /\ heap = <<>>
    /\ csp = CSP(0, <<>>, <<>>)
    /\ call = NoCall
    /\ pc = "idle"
    /\ result = NoResult
    /\ csp_copy = NoCsp
    /\ domains = <<>>
    /\ solutions = <<>>
    /\ info_i = 0
    /\ stack = <<>>
    /\ ret = <<>>
    /\ mc_i = 0
    /\ trace = <<>>
    /\ prev = NoPrev

\* csp.add_variable(Variable(name, domain)): the new object is appended to
\* var_list and var_dict[name] is set to it.
add_variable(name, domain) ==
    /\ pc = "idle"
    /\ Len(csp.var_list) < MaxVariables
    /\ heap' = Append(heap, Variable(name, domain))
    /\ csp' = [csp EXCEPT !.var_list = Append(@, Len(heap) + 1),
                          !.var_dict = DictSet(@, name, Len(heap) + 1)]
    /\ call' = ApiCall("add_variable")
    /\ result' = RNone
    /\ prev' = NoPrev
    /\ UNCHANGED <<pc, engine, trace>>

\* csp.add_constraint(constraint): the constraint is appended.
add_constraint(constraint) ==
    /\ pc = "idle"
    /\ Len(csp.constraints) < MaxConstraints
    /\ csp' = [csp EXCEPT !.constraints = Append(@, constraint)]
    /\ call' = ApiCall("add_constraint")
    /\ result' = RNone
    /\ prev' = NoPrev
    /\ UNCHANGED <<heap, pc, engine, trace>>

\* reset that unassigns the variables and leaves their domains as they are.
ResetVariables_keeps_domain(h, c) ==
    [id \in 1..Len(h) |->
        IF IsIn(id, c.var_list) THEN [h[id] EXCEPT !.value = None] ELSE h[id]]

\* The loop of reset: every variable of var_list becomes unassigned and its
\* domain a deep copy of init_domain.
ResetVariables(h, c) ==
    [id \in 1..Len(h) |->
        IF IsIn(id, c.var_list)
        THEN [h[id] EXCEPT !.value = None, !.domain = h[id].init_domain]
        ELSE h[id]]

\* csp.reset()
reset ==
    /\ pc = "idle"
    /\ heap' = ResetVariables(heap, csp)
    /\ call' = ApiCall("reset")
    /\ result' = RNone
    /\ prev' = Before
    /\ UNCHANGED <<csp, pc, engine, trace>>

\* Solver.make_assignment([var], [value]) called on a variable of the
\* problem with a value of its domain: it returns the undo record.
Caller_make_assignment(var, value) ==
    /\ pc = "idle"
    /\ \E undo_assign \in {make_assignment(heap, <<var>>, <<value>>)} :
          /\ heap' = undo_assign.heap
          /\ result' = RList(undo_assign.undo)
    /\ call' = ApiCall("make_assignment")
    /\ prev' = NoPrev
    /\ UNCHANGED <<csp, pc, engine, trace>>

\* The position in constraints of the first constraint that names a variable
\* the problem does not have, 0 when there is none.
FirstMalformed(c, constraints) ==
    IF \E k \in 1..Len(constraints) :
          \E i \in 1..Len(constraints[k].var_names) :
             ~DictHas(c.var_dict, constraints[k].var_names[i])
    THEN CHOOSE k \in 1..Len(constraints) :
            /\ \E i \in 1..Len(constraints[k].var_names) :
                  ~DictHas(c.var_dict, constraints[k].var_names[i])
            /\ \A j \in 1..(k - 1) :
                  \A i \in 1..Len(constraints[j].var_names) :
                     DictHas(c.var_dict, constraints[j].var_names[i])
    ELSE 0

\* Solver.forward_check([var], csp) called on the problem itself: it returns
\* orig_domains, or csp.var_dict[name] raises KeyError at the first
\* constraint naming var that names an unknown variable, the constraints
\* before it having pruned.
Caller_forward_check(var) ==
    /\ pc = "idle"
    /\ \E constraints \in {get_constraints_with(csp, heap[var].name)} :
         \E bad \in {FirstMalformed(csp, constraints)} :
            IF bad = 0
            THEN \E checked \in {forward_check(heap, <<var>>, csp)} :
                    /\ heap' = checked.heap
                    /\ result' = RDict(checked.orig_domains)
            ELSE /\ heap' = ForwardCheckConstraints(
                               heap, csp, SubSeq(constraints, 1, bad - 1), 1)
                 /\ result' = RRaise("KeyError")
    /\ call' = ApiCall("forward_check")
    /\ prev' = NoPrev
    /\ UNCHANGED <<csp, pc, engine, trace>>

NextBuild ==
    \/ \E name \in BuildNames : \E domain \in BuildDomains :
          add_variable(name, domain)
    \/ \E constraint \in BuildConstraints : add_constraint(constraint)
    \/ reset
    \/ \E i \in 1..Len(csp.var_list) :
          \E value \in Range(heap[csp.var_list[i]].domain) :
             Caller_make_assignment(csp.var_list[i], value)
    \/ \E i \in 1..Len(csp.var_list) : Caller_forward_check(csp.var_list[i])

SpecBuild == InitBuild /\ [][NextBuild]_vars

\* ------------------------------------------------------------------------
\* Backtracking on problems with constraints on one variable
\* ------------------------------------------------------------------------

\* Constraints on a single variable (Constraint.__init__ takes any tuple of
\* names): forward checking never prunes for them, so they are enforced by
\* Solver.consistent alone.
UnaryChoices ==
    <<Constraint(<<"x">>, "gt1"),
      Constraint(<<"y">>, "gt1"),
      Constraint(<<"z">>, "gt1")>>

\* The constraint lists over the first n names that hold a constraint on one
\* variable: it alone, with another one, or before or after one constraint
\* of ConstraintChoices.
UnaryLists(n) ==
    LET unary == {UnaryChoices[k] : k \in 1..n}
        other == {c \in Range(ConstraintChoices) :
                     \A i \in 1..Len(c.var_names) :
                         \E j \in 1..n : Names[j] = c.var_names[i]}
    IN {<<u>> : u \in unary}
       \cup {<<p[1], p[2]>> : p \in {q \in unary \X unary : q[1] # q[2]}}
       \cup {<<u, c>> : u \in unary, c \in other}
       \cup {<<c, u>> : u \in unary, c \in other}

InitUnary ==
    /\ \E n \in 1..Len(Names) :
         \E doms \in [1..n -> DomainChoices] :
           \E cons \in UnaryLists(n) :
             /\ heap = [i \in 1..n |-> Variable(Names[i], doms[i])]
             /\ csp = CSP(n, cons, Names)
    /\ call = NoCall
    /\ pc = "idle"
    /\ result = NoResult
    /\ csp_copy = NoCsp
    /\ domains = <<>>
    /\ solutions = <<>>
    /\ info_i = 0
    /\ stack = <<>>
    /\ ret = <<>>
    /\ mc_i = 0
    /\ trace = <<>>
    /\ prev = NoPrev

SpecUnary == InitUnary /\ [][NextBacktracking]_vars

\* ------------------------------------------------------------------------
\* Solving problems with a constraint on a variable that is not there
\* ------------------------------------------------------------------------

\* Constraints that name "w", which no problem has, beside one other name
\* (CSP.add_constraint appends them unchecked).
MalformedChoices ==
    <<Constraint(<<"x", "w">>, "ne"),
      Constraint(<<"w", "y">>, "lt")>>

\* The constraint lists over the first n names that hold one such
\* constraint: it alone, or before or after one constraint of
\* ConstraintChoices.
MalformedLists(n) ==
    LET bad == Range(MalformedChoices)
        other == {c \in Range(ConstraintChoices) :
                     \A i \in 1..Len(c.var_names) :
                         \E j \in 1..n : Names[j] = c.var_names[i]}
    IN {<<m>> : m \in bad}
       \cup {<<m, c>> : m \in bad, c \in other}
       \cup {<<c, m>> : m \in bad, c \in other}

InitMalformed ==
    /\ \E n \in 1..Len(Names) :
         \E doms \in [1..n -> DomainChoices] :
           \E cons \in MalformedLists(n) :
             /\ heap = [i \in 1..n |-> Variable(Names[i], doms[i])]
             /\ csp = CSP(n, cons, Names)
    /\ call = NoCall
    /\ pc = "idle"
    /\ result = NoResult
    /\ csp_copy = NoCsp
    /\ domains = <<>>
    /\ solutions = <<>>
    /\ info_i = 0
    /\ stack = <<>>
    /\ ret = <<>>
    /\ mc_i = 0
    /\ trace = <<>>
    /\ prev = NoPrev

\* The calls of the two engines and of an unknown algorithm, without the
\* progress options.
NextMalformed ==
    \/ \E kwargs \in BacktrackingCalls \cup MinConflictsCalls \cup UnknownCalls :
          get_solution(kwargs)
    \/ \E kwargs \in BacktrackingCalls \cup MinConflictsCalls \cup UnknownCalls :
          get_all_solutions(kwargs)
    \/ Backtracking_Setup
    \/ RecursiveBacktracking_Enter
    \/ RecursiveBacktracking_Loop
    \/ RecursiveBacktracking_Resume
    \/ Backtracking_Return
    \/ MinConflicts_Setup
    \/ MinConflicts_Iterate
    \/ MinConflicts_Return

SpecMalformed == InitMalformed /\ [][NextMalformed]_vars

\* ------------------------------------------------------------------------
\* Properties: the reference the results are compared with
\* ------------------------------------------------------------------------

\* A solve call has returned or raised, and no other has started.
Returned(algorithm) == pc = "idle" /\ call.algorithm = algorithm

\* The names of the problem's variables, in the order of var_list.
ProblemNames == [i \in 1..Len(csp.var_list) |-> heap[csp.var_list[i]].name]

\* The domain the problem's i-th variable was defined with.
ProblemDomain(i) == heap[csp.var_list[i]].init_domain

\* The total assignments: one value of its domain for every variable, kept
\* as the tuple of the values in the order of var_list.
TotalAssignments ==
    {a \in [1..Len(csp.var_list) -> 1..MaxVal] :
        \A i \in 1..Len(csp.var_list) : IsIn(a[i], ProblemDomain(i))}

\* The value a mapping d, a sequence of <<name, value>> items, gives name.
ValueIn(d, name) == d[CHOOSE j \in 1..Len(d) : d[j][1] = name][2]

\* The constraint is true of the values of mapping d, taken in the order of
\* the constraint's var_names.
HoldsIn(d, constraint) ==
    LET vals == [i \in 1..Len(constraint.var_names) |->
                    ValueIn(d, constraint.var_names[i])]
    IN CASE constraint.satisfied = "ne" -> vals[1] # vals[2]
         [] constraint.satisfied = "lt" -> vals[1] < vals[2]
         [] constraint.satisfied = "between" ->
               \/ vals[3] < vals[1] /\ vals[3] < vals[2]
               \/ vals[3] > vals[1] /\ vals[3] > vals[2]

\* Mapping d has exactly one item for every variable of the problem and no
\* other item.
KeysAreTheNames(d) ==
    /\ Len(d) = Len(ProblemNames)
    /\ \A i \in 1..Len(ProblemNames) :
          Cardinality({j \in 1..Len(d) : d[j][1] = ProblemNames[i]}) = 1

\* Mapping d gives every variable a value of the domain it was defined with.
ValuesInDomains(d) ==
    \A i \in 1..Len(ProblemNames) :
        IsIn(ValueIn(d, ProblemNames[i]), ProblemDomain(i))

\* Mapping d is a solution of the problem.
IsSolution(d) ==
    /\ KeysAreTheNames(d)
    /\ ValuesInDomains(d)
    /\ \A k \in 1..Len(csp.constraints) : HoldsIn(d, csp.constraints[k])

\* The mapping of a total assignment.
AsMapping(a) == [i \in 1..Len(a) |-> <<ProblemNames[i], a[i]>>]

\* Brute force: the mappings of the total assignments that satisfy every
\* constraint.
BruteForce == {d \in {AsMapping(a) : a \in TotalAssignments} : IsSolution(d)}

\* The call was made with no option but the algorithm and take_first: the
\* others have their defaults.
DefaultOptions ==
    /\ ~call.verbose
    /\ call.progress_freq = DefaultProgressFreq
    /\ call.iter_limit = DefaultIterLimit
    /\ ~call.uniqueness

\* The problem of the example: x, y and z over {1, 2, 3} with x != y.
ExampleProblem ==
    /\ Len(csp.var_list) = 3
    /\ \A i \in 1..3 : ProblemDomain(i) = <<1, 2, 3>>
    /\ csp.constraints = <<Constraint(<<"x", "y">>, "ne")>>

\* ------------------------------------------------------------------------
\* C1
\* ------------------------------------------------------------------------

\* C1: soundness of backtracking.  Every mapping get_solution('backtracking')
\* returns, and every element of the list get_all_solutions('backtracking')
\* returns, has exactly one value for every variable of the problem, taken
\* from that variable's domain, and makes every constraint true when it is
\* evaluated on the variables in the constraint's declared order.
C1_BacktrackingSound ==
    Returned("backtracking") =>
        /\ result.kind = "dict" => IsSolution(result.dict)
        /\ result.kind = "list" =>
              \A i \in 1..Len(result.list) : IsSolution(result.list[i])

\* get_all_solutions('backtracking') has returned several mappings for a
\* problem whose constraints include one whose declared order is not the
\* order of the variable list.
C1_Witness ==
    /\ Returned("backtracking")
    /\ result.kind = "list"
    /\ Len(result.list) >= 2
    /\ \E k \in 1..Len(csp.constraints) :
          csp.constraints[k] = Constraint(<<"z", "y">>, "lt")

\* ------------------------------------------------------------------------
\* C2
\* ------------------------------------------------------------------------

\* C2: completeness of the backtracking enumeration.  The list
\* get_all_solutions('backtracking') returns holds every total assignment
\* that satisfies all constraints exactly once and nothing else, so its
\* length is the brute-force count over the cartesian product of the
\* domains: 18 for x, y, z over {1, 2, 3} with the constraint x != y.
C2_BacktrackingComplete ==
    (Returned("backtracking") /\ ~call.take_first) =>
        /\ result.kind = "list"
        /\ Range(result.list) = BruteForce
        /\ Len(result.list) = Cardinality(BruteForce)
        /\ ExampleProblem => Len(result.list) = 18

\* get_all_solutions('backtracking') has returned the 18 solutions of the
\* example.
C2_Witness ==
    /\ Returned("backtracking")
    /\ ~call.take_first
    /\ ExampleProblem
    /\ Len(result.list) = 18

\* ------------------------------------------------------------------------
\* C3
\* ------------------------------------------------------------------------

C4_ProblemUnchanged ==
    [][/\ csp' = csp
       /\ \A i \in 1..Len(csp.var_list) :
             /\ heap'[csp.var_list[i]] = heap[csp.var_list[i]]
             /\ heap[csp.var_list[i]].value = None]_vars

\* A second solve of a problem with variables and constraints has ended, both
\* solves having assigned values in their search, and the caller's variables
\* are unassigned with their full domains.
C4_Witness ==
    /\ pc = "idle"
    /\ prev # NoPrev
    /\ prev.result.kind = "dict"
    /\ trace # <<>>
    /\ Len(csp.var_list) = 3
    /\ Len(csp.constraints) = 2
    /\ \A i \in 1..Len(csp.var_list) :
          /\ heap[csp.var_list[i]].value = None
          /\ heap[csp.var_list[i]].domain = heap[csp.var_list[i]].init_domain

\* ------------------------------------------------------------------------
\* C5
\* ------------------------------------------------------------------------

\* Some variable of the problem has an empty domain.
SomeDomainEmpty ==
    \E i \in 1..Len(csp.var_list) : ProblemDomain(i) = <<>>

\* C5: for a problem in which some variable has an empty domain,
\* get_solution returns None under 'backtracking' and also under
\* 'min_conflicts': it returns normally and does not fail during the random
\* initial assignment.
C5_EmptyDomainIsNone ==
    (/\ pc = "idle"
     /\ call.algorithm \in Algorithms
     /\ call.take_first
     /\ DefaultOptions
     /\ SomeDomainEmpty) => result = RNone

\* C5, the half that holds: get_solution('backtracking') returns None when
\* some variable has an empty domain.
C5_BacktrackingHalf ==
    (Returned("backtracking") /\ call.take_first /\ DefaultOptions
     /\ SomeDomainEmpty) => result = RNone

\* ------------------------------------------------------------------------
\* C6
\* ------------------------------------------------------------------------

\* C6: for a problem with zero constraints and every domain non-empty,
\* get_solution under either algorithm returns a mapping whose keys are
\* exactly the variable names and whose value for each name is a member of
\* that variable's domain.  Stated for backtracking, and for min_conflicts
\* with and without uniqueness and with its default iteration cap or any cap
\* of at least one.
C6_NoConstraintsMapping ==
    (/\ pc = "idle"
     /\ call.algorithm \in Algorithms
     /\ call.take_first
     /\ call.progress_freq = DefaultProgressFreq
     /\ call.iter_limit >= 1
     /\ csp.constraints = <<>>
     /\ ~SomeDomainEmpty) =>
        /\ result.kind = "dict"
        /\ KeysAreTheNames(result.dict)
        /\ ValuesInDomains(result.dict)

\* get_solution('min_conflicts') has returned a mapping for three variables
\* with non-empty domains and no constraint.
C6_Witness ==
    /\ Returned("min_conflicts")
    /\ call.take_first
    /\ call.iter_limit = DefaultIterLimit
    /\ csp.constraints = <<>>
    /\ Len(csp.var_list) = 3
    /\ ~SomeDomainEmpty
    /\ result.kind = "dict"
    /\ Len(result.dict) = 3

\* ------------------------------------------------------------------------
\* C7
\* ------------------------------------------------------------------------

\* C7: a solve (get_solution or get_all_solutions) with an algorithm name
\* other than 'backtracking' or 'min_conflicts' fails with the configuration
\* error, NotImplementedError, before any copy of the problem is made and
\* before any variable value or domain is changed: the call is one step that
\* leaves every object and the problem as they are and starts no engine.
C7_UnknownAlgorithmFails ==
    [][(pc = "idle" /\ call'.algorithm \notin Algorithms) =>
          /\ result' = RRaise("NotImplementedError")
          /\ pc' = "idle"
          /\ heap' = heap
          /\ csp' = csp
          /\ csp_copy' = NoCsp]_vars

\* A solve with an unknown algorithm name has raised NotImplementedError on
\* a problem with variables and constraints.
C7_Witness ==
    /\ pc = "idle"
    /\ call.algorithm = "simulated_annealing"
    /\ result = RRaise("NotImplementedError")
    /\ Len(csp.var_list) = 3
    /\ csp.constraints # <<>>

\* ------------------------------------------------------------------------
\* C8
\* ------------------------------------------------------------------------

C9_MinConflictsSound ==
    (Returned("min_conflicts") /\ result.kind = "dict") =>
        IsSolution(result.dict)

\* get_solution('min_conflicts') has returned a mapping for a problem with
\* three variables and two constraints.
C9_Witness ==
    /\ Returned("min_conflicts")
    /\ call.take_first
    /\ result.kind = "dict"
    /\ Len(csp.var_list) = 3
    /\ Len(csp.constraints) = 2

\* ------------------------------------------------------------------------
\* C10
\* ------------------------------------------------------------------------

\* The mapping of the values the variables of min_conflicts' copy hold.
CurrentMapping ==
    [i \in 1..Len(csp_copy.var_list) |->
        <<heap[csp_copy.var_list[i]].name, heap[csp_copy.var_list[i]].value>>]

\* C10: with take_first=False and a finite iteration cap, min_conflicts
\* keeps running after it meets a satisfying assignment and returns normally
\* a list that holds every satisfying assignment that was current at the
\* start of one of its iterations before the cap, not just the first one.
\* As a property of every step of such a call on a problem that has
\* constraints: no step raises; a step that starts an iteration on a
\* satisfying assignment stays in the loop with that assignment in
\* solutions; solutions only grows; and the step that ends the call returns
\* solutions.
C10_AllSolutionsCollected ==
    [][(/\ pc = "mc_loop"
        /\ ~call.take_first
        /\ call.iter_limit <= MaxIterLimit
        /\ csp.constraints # <<>>) =>
          /\ result'.kind # "raise"
          /\ (mc_i < call.iter_limit /\ IsSolution(CurrentMapping)) =>
                /\ pc' = "mc_loop"
                /\ IsIn(CurrentMapping, solutions')
          /\ pc' = "mc_loop" =>
                /\ Len(solutions') >= Len(solutions)
                /\ SubSeq(solutions', 1, Len(solutions)) = solutions
          /\ pc' = "idle" => result' = RList(solutions)]_vars

\* ------------------------------------------------------------------------
\* C11
\* ------------------------------------------------------------------------

\* The steps of a solve call once it has been made: the code runs on,
\* statement after statement, until the call returns or raises.
EngineStep ==
    \/ Backtracking_Setup
    \/ RecursiveBacktracking_Enter
    \/ RecursiveBacktracking_Loop
    \/ RecursiveBacktracking_Resume
    \/ Backtracking_Return
    \/ MinConflicts_Setup
    \/ MinConflicts_Iterate
    \/ MinConflicts_Return

\* The program with its calls running to their end.
FairSpec == Spec /\ WF_vars(EngineStep)

\* The iteration that starts now finds the assignment of min_conflicts
\* satisfying (_csp.solved() is true at the top of the loop).
ObservesSolution ==
    /\ pc = "mc_loop"
    /\ mc_i < call.iter_limit
    /\ solved(heap, csp_copy)

\* C11: every solve terminates; backtracking ends after finitely many
\* assignments, its depth being at most the number of variables, and
\* min_conflicts performs at most iter_limit repair steps and then, if it
\* never observed a satisfying assignment, reports failure: None for
\* take_first, an empty list otherwise.  As a property of every step: the
\* choice points of backtracking are never more than the variables, the
\* repairs of min_conflicts never more than iter_limit, and a step that ends
\* a min_conflicts call that has recorded no solution and observes none now
\* returns None or the empty list.
C11_SolveTerminates ==
    [][/\ Len(stack') <= Len(csp.var_list)
       /\ mc_i' <= call'.iter_limit
       /\ (/\ pc \in {"min_conflicts", "mc_loop"}
           /\ pc' = "idle"
           /\ solutions = <<>>
           /\ ~ObservesSolution) =>
             result' = IF call.take_first THEN RNone ELSE RList(<<>>)]_vars

\* C11, the part that holds of backtracking: the frames of the recursion
\* are never more than the variables, each frame branches on a variable of
\* its own, and the recursive calls made are at most one more than the
\* assignments made.
C11_BacktrackingDepth ==
    /\ Len(stack) <= Len(csp.var_list)
    /\ \A i, j \in 1..Len(stack) : i # j => stack[i].next_var # stack[j].next_var
    /\ info_i <= Len(trace) + 1

\* C11, the part that holds of both engines: a call that has been made
\* returns or raises, min_conflicts being followed for the iteration caps of
\* the model.
C11_EveryCallEnds ==
    (pc # "idle" /\ (call.algorithm = "min_conflicts" =>
                        call.iter_limit <= MaxIterLimit)) ~> (pc = "idle")

\* ------------------------------------------------------------------------
\* C12
\* ------------------------------------------------------------------------

\* The constraint names a variable the problem does not have.
NamesUnknownVariable(constraint) ==
    \E i \in 1..Len(constraint.var_names) :
        ~DictHas(csp.var_dict, constraint.var_names[i])

\* C12: add_constraint validates the referenced names at registration time.
\* Adding a constraint that names a variable not present in the problem
\* fails at the add_constraint call and leaves the constraint list
\* unchanged, rather than failing later inside a solve.
C12_AddConstraintValidates ==
    [][\A constraint \in BuildConstraints :
          (NamesUnknownVariable(constraint) /\ add_constraint(constraint)) =>
             /\ result'.kind = "raise"
             /\ csp'.constraints = csp.constraints]_vars

\* C12, what the code does instead: the constraint is registered, and the
\* unknown name is met only when the constraint is used, where the lookup
\* csp.var_dict[name] raises KeyError.
C12_FailsLater ==
    [][/\ call'.algorithm = "add_constraint" =>
             /\ result' = RNone
             /\ Len(csp'.constraints) = Len(csp.constraints) + 1
       /\ (call'.algorithm = "forward_check" /\ result'.kind = "raise") =>
             /\ result'.exc = "KeyError"
             /\ \E k \in 1..Len(csp.constraints) :
                   NamesUnknownVariable(csp.constraints[k])]_vars

\* ------------------------------------------------------------------------
\* C13
\* ------------------------------------------------------------------------

\* The names of the variables of var_list, and the names of the index.
ListNames == {heap[csp.var_list[i]].name : i \in 1..Len(csp.var_list)}

IndexNames == {csp.var_dict[i][1] : i \in 1..Len(csp.var_dict)}

\* C13: the variable list and the name-to-variable index of a problem stay
\* in sync after any sequence of add_variable calls, calls that reuse a name
\* included: no two entries of the variable list share a name, the index
\* has exactly the names of the list, and each name maps to the list entry
\* with that name.
C13_ListAndIndexInSync ==
    /\ \A i, j \in 1..Len(csp.var_list) :
          i # j => heap[csp.var_list[i]].name # heap[csp.var_list[j]].name
    /\ IndexNames = ListNames
    /\ \A i \in 1..Len(csp.var_dict) :
          /\ IsIn(csp.var_dict[i][2], csp.var_list)
          /\ heap[csp.var_dict[i][2]].name = csp.var_dict[i][1]

\* C13, the part that holds: the index has exactly the names of the list,
\* once each, and maps each name to the last entry of the list with that
\* name.
C13_IndexFollowsList ==
    /\ IndexNames = ListNames
    /\ Len(csp.var_dict) = Cardinality(IndexNames)
    /\ \A i \in 1..Len(csp.var_dict) :
          \E p \in 1..Len(csp.var_list) :
             /\ csp.var_list[p] = csp.var_dict[i][2]
             /\ heap[csp.var_list[p]].name = csp.var_dict[i][1]
             /\ \A q \in (p + 1)..Len(csp.var_list) :
                   heap[csp.var_list[q]].name # csp.var_dict[i][1]

\* ------------------------------------------------------------------------
\* C14
\* ------------------------------------------------------------------------

\* Every object of h that has a value holds a member of its own initial
\* domain, and so did it (and its scratch copies) at every binding made
\* since it was created, the hypothetical bindings that were undone
\* included.
ValuesInInitialDomains(h) ==
    \A id \in 1..Len(h) :
        /\ h[id].bound_in_domain
        /\ h[id].value # None => IsIn(h[id].value, h[id].init_domain)

\* C14: in every state reached by either engine, the hypothetical bindings
\* made during value ordering, forward checking and min-conflicts repair
\* included, with or without uniqueness mode, each variable that has a
\* value holds a member of its own initial domain.  The second conjunct
\* covers the bindings of a random initial assignment that ends in an
\* exception, whose objects no later state holds.
C14_ValuesInInitialDomain ==
    /\ ValuesInInitialDomains(heap)
    /\ pc = "min_conflicts" =>
          \A r \in make_random_assignment(DeepCopyHeap(heap, csp),
                                          DeepCopyCsp(heap, csp),
                                          call.uniqueness) :
             ValuesInInitialDomains(r.heap)

\* min_conflicts in uniqueness mode has made a repair on three variables
\* with domains of different sizes, and every variable of its copy holds a
\* value.
C14_Witness ==
    /\ pc = "mc_loop"
    /\ call.uniqueness
    /\ mc_i >= 1
    /\ Len(csp_copy.var_list) = 3
    /\ csp_copy.constraints # <<>>
    /\ \E i, j \in 1..3 : Len(ProblemDomain(i)) < Len(ProblemDomain(j))
    /\ \A i \in 1..3 : heap[csp_copy.var_list[i]].value # None

\* ------------------------------------------------------------------------
\* C15
\* ------------------------------------------------------------------------

\* C15: reset, applied to a problem in any state (any variables assigned,
\* any domains pruned), leaves every variable unassigned with a domain equal
\* to its initial domain snapshot, leaves the initial snapshots, the
\* variable list and the constraints unchanged, and is idempotent: a reset
\* that follows a reset changes nothing.
C15_ResetRestores ==
    [][call'.algorithm = "reset" =>
          /\ csp' = csp
          /\ Len(heap') = Len(heap)
          /\ \A i \in 1..Len(csp.var_list) :
                /\ heap'[csp.var_list[i]].value = None
                /\ heap'[csp.var_list[i]].domain = heap[csp.var_list[i]].init_domain
                /\ heap'[csp.var_list[i]].init_domain =
                      heap[csp.var_list[i]].init_domain
                /\ heap'[csp.var_list[i]].name = heap[csp.var_list[i]].name
          /\ call.algorithm = "reset" => heap' = heap]_vars

\* reset has been applied to the problem x < y over {1, 2} right after x was
\* assigned 1 (its domain cut to {1}) and forward checking pruned 1 from the
\* domain of y: both variables are unassigned with their initial domains.
C15_Witness ==
    /\ call.algorithm = "reset"
    /\ prev.call.algorithm = "forward_check"
    /\ prev.result = RDict(<< <<"x", <<1>> >>, <<"y", <<1, 2>> >> >>)
    /\ csp.constraints = <<Constraint(<<"x", "y">>, "lt")>>
    /\ Len(csp.var_list) = 2
    /\ \A i \in 1..Len(csp.var_list) :
          /\ heap[csp.var_list[i]].value = None
          /\ heap[csp.var_list[i]].domain = <<1, 2>>
          /\ heap[csp.var_list[i]].init_domain = <<1, 2>>

\* ------------------------------------------------------------------------
\* C16
\* ------------------------------------------------------------------------

\* C16: a recorded solution is a snapshot.  Once a mapping has been appended
\* to the solutions list (or returned), no later step of the search
\* (undoing assignments, restoring domains, further repairs) changes any
\* name-to-value pair of that mapping.  As a property of every step of a
\* solve: while the search goes on, the mappings already in solutions stay
\* as they are, in their places; a mapping is appended as the values the
\* variables hold at that moment; a mapping on its way up through the
\* recursion with take_first is handed on unchanged; and the call returns
\* the recorded mappings (the list, or with take_first the one recorded).
C16_SolutionsAreSnapshots ==
    [][/\ (pc # "idle" /\ pc' # "idle") =>
             /\ Len(solutions') >= Len(solutions)
             /\ SubSeq(solutions', 1, Len(solutions)) = solutions
             /\ Len(solutions') > Len(solutions) =>
                   /\ Len(solutions') = Len(solutions) + 1
                   /\ solutions'[Len(solutions')] = CurrentMapping
             /\ (pc = "bt_resume" /\ call.take_first /\ ret # <<>>) => ret' = ret
       /\ (pc # "idle" /\ pc' = "idle" /\ result'.kind = "list") =>
             result'.list = solutions
       /\ (pc = "bt_done" /\ pc' = "idle" /\ result'.kind = "dict") =>
             /\ solutions = <<result'.dict>>
             /\ ret = <<result'.dict>>
       /\ (pc = "mc_loop" /\ pc' = "idle" /\ result'.kind = "dict") =>
             result'.dict = CurrentMapping]_vars

\* The search of all solutions goes on after it has recorded a solution: the
\* variables no longer hold the values of the first recorded mapping, which
\* still is a solution of the problem.
C16_Witness ==
    /\ pc = "bt_loop"
    /\ ~call.take_first
    /\ Len(solutions) >= 2
    /\ IsSolution(solutions[1])
    /\ \E i \in 1..Len(csp_copy.var_list) :
          heap[csp_copy.var_list[i]].value = None

\* ------------------------------------------------------------------------
\* C17
\* ------------------------------------------------------------------------

\* Whether every variable of the engine's copy has in heap h the value and
\* the live domain it has in heap g.
SameValuesAndDomains(h, g) ==
    \A i \in 1..Len(csp_copy.var_list) :
       /\ h[csp_copy.var_list[i]].value = g[csp_copy.var_list[i]].value
       /\ h[csp_copy.var_list[i]].domain = g[csp_copy.var_list[i]].domain

\* Whether every variable of the engine's copy is unassigned and has the
\* domain the caller's variable had when the problem was copied.
CopyIsPristine(h) ==
    \A i \in 1..Len(csp_copy.var_list) :
       /\ h[csp_copy.var_list[i]].value = None
       /\ h[csp_copy.var_list[i]].domain = h[csp.var_list[i]].domain

\* C17: the save/mutate/restore discipline of backtracking.  Whenever a
\* recursive search call returns to its caller without a short-circuiting
\* success (always, when take_first is false), and after the caller has
\* undone that candidate, every variable's value and live domain are equal
\* to what they were just before the candidate was assigned; a candidate
\* that is undone without a recursive call leaves them as they were as well.
\* In particular when a search finishes without a short-circuiting success
\* (an all-solutions search always does), every variable is unassigned with
\* its original domain.
C17_SaveMutateRestore ==
    [][/\ (pc = "bt_resume" /\ pc' = "bt_loop") =>
             SameValuesAndDomains(heap', stack[Len(stack)].saved)
       /\ (pc = "bt_loop" /\ pc' = "bt_loop") =>
             SameValuesAndDomains(heap', heap)
       /\ (pc' = "bt_done" /\ (~call.take_first \/ ret' = <<>>)) =>
             CopyIsPristine(heap')]_vars

\* A recursive call has returned a solution to a caller that goes on
\* searching, and the caller has undone its candidate: binding the candidate
\* and forward checking it had changed the value of the caller's variable
\* and pruned the domain of another one, and both are back.
C17_Witness ==
    /\ pc = "bt_loop"
    /\ ~call.take_first
    /\ solutions # <<>>
    /\ \E f \in {stack[Len(stack)]} :
          /\ f.saved # <<>>
          /\ f.idx > 1
          /\ SameValuesAndDomains(heap, f.saved)
          /\ \E tried \in {DictGet(domains, heap[f.next_var].name)[f.idx - 1]} :
             \E assigned \in {make_assignment(heap, <<f.next_var>>, <<tried>>).heap} :
             \E checked \in {forward_check(assigned, <<f.next_var>>, csp_copy).heap} :
                /\ consistent(assigned, heap[f.next_var].name, csp_copy)
                /\ \E i \in 1..Len(csp_copy.var_list) :
                      /\ csp_copy.var_list[i] # f.next_var
                      /\ Len(checked[csp_copy.var_list[i]].domain)
                            < Len(heap[csp_copy.var_list[i]].domain)

\* ------------------------------------------------------------------------
\* C18
\* ------------------------------------------------------------------------

\* Whether heap h holds every variable of problem c unassigned and with the
\* domain it has in heap g.
UnassignedWithDomainsOf(h, c, g) ==
    \A i \in 1..Len(c.var_list) :
       /\ h[c.var_list[i]].value = None
       /\ h[c.var_list[i]].domain = g[c.var_list[i]].domain

\* The heap order_domain(var, c) has made of heap h once the first n values
\* of var's domain have been scored.
AfterScoring(h, c, var, n) ==
    OrderKeys(h, c, var, SubSeq(h[var].domain, 1, n), 1, <<>>).heap

\* C18: value ordering does not leak into the search state.  After
\* order_domain has been computed for a variable (and after each candidate
\* value has been scored), every variable of the engine's problem copy is
\* unassigned and has exactly the domain it had before the computation.
\* Checked where backtracking orders the domains: on the fresh copy of the
\* problem, for every variable and after every value scored, for the whole
\* of order_domain, and in the state backtracking starts its search from.
C18_OrderingDoesNotLeak ==
    [][pc = "backtracking" =>
         \E _csp \in {DeepCopyCsp(heap, csp)} :
         \E copied \in {DeepCopyHeap(heap, csp)} :
            /\ UnassignedWithDomainsOf(copied, _csp, copied)
            /\ \A k \in 1..Len(_csp.var_list) :
                  /\ \A n \in 0..Len(copied[_csp.var_list[k]].domain) :
                        UnassignedWithDomainsOf(
                            AfterScoring(copied, _csp, _csp.var_list[k], n),
                            _csp, copied)
                  /\ UnassignedWithDomainsOf(
                        order_domain(copied, _csp.var_list[k], _csp).heap,
                        _csp, copied)
            /\ csp_copy' = _csp
            /\ UnassignedWithDomainsOf(heap', _csp, copied)]_vars

\* backtracking has ordered the domains and is about to search: scoring the
\* values has found that they prune different numbers of values, because some
\* variable's value order is not the order of its domain, and the variables
\* of the copy are unassigned with the domains of the caller's variables,
\* one of which has several values.
C18_Witness ==
    /\ pc = "bt_enter"
    /\ info_i = 0
    /\ stack = <<>>
    /\ Len(csp_copy.var_list) >= 2
    /\ \E i \in 1..Len(csp_copy.var_list) :
          /\ DictGet(domains, heap[csp_copy.var_list[i]].name)
                # heap[csp_copy.var_list[i]].domain
          /\ Len(heap[csp_copy.var_list[i]].domain) >= 2
    /\ \A i \in 1..Len(csp_copy.var_list) :
          /\ heap[csp_copy.var_list[i]].value = None
          /\ heap[csp_copy.var_list[i]].domain = heap[csp.var_list[i]].domain

\* ------------------------------------------------------------------------
\* C19
\* ------------------------------------------------------------------------

\* Whether heap h holds an assignment that violates a constraint of the
\* engine's problem all of whose participants are assigned.
ViolatesAssigned(h) ==
    \E k \in 1..Len(csp_copy.constraints) :
       \E arg_list \in {ArgList(h, csp_copy, csp_copy.constraints[k])} :
          /\ \A i \in 1..Len(arg_list) : arg_list[i].value # None
          /\ ~Satisfied(csp_copy.constraints[k], arg_list)

\* The heap with the candidate value bound to the variable the innermost
\* call branches on.
WithCandidate(value) ==
    [heap EXCEPT ![stack[Len(stack)].next_var].value = value]

\* C19: partial-assignment consistency.  At the entry of every recursive
\* backtracking call, the current partial assignment violates no constraint
\* all of whose participants are assigned; a candidate value that violates
\* such a constraint is undone without forward checking or recursion: the
\* loop goes on to the next value in the same call, with every value and
\* domain as before the candidate and no call counted.
C19_PartialAssignmentConsistent ==
    [][/\ pc' = "bt_enter" => ~ViolatesAssigned(heap')
       /\ (/\ pc = "bt_loop"
           /\ trace' # trace
           /\ ViolatesAssigned(WithCandidate(trace'[Len(trace')][2]))) =>
             /\ pc' = "bt_loop"
             /\ SameValuesAndDomains(heap', heap)
             /\ Len(stack') = Len(stack)
             /\ stack'[Len(stack)].idx = stack[Len(stack)].idx + 1
             /\ info_i' = info_i
             /\ solutions' = solutions]_vars

\* A candidate that is in the domain of its variable and violates a
\* constraint has just been tried and undone, in a call that is not the
\* outermost one: the loop is at the next value, the variable is unassigned
\* with the candidate still in its domain.
C19_Witness ==
    /\ pc = "bt_loop"
    /\ Len(stack) >= 2
    /\ trace # <<>>
    /\ \E f \in {stack[Len(stack)]} :
          /\ f.idx > 1
          /\ trace[Len(trace)] =
                <<heap[f.next_var].name,
                  DictGet(domains, heap[f.next_var].name)[f.idx - 1]>>
          /\ heap[f.next_var].value = None
          /\ IsIn(trace[Len(trace)][2], heap[f.next_var].domain)
          /\ ViolatesAssigned(WithCandidate(trace[Len(trace)][2]))

\* ------------------------------------------------------------------------
\* C20
\* ------------------------------------------------------------------------

\* Whether constraint con of the engine's problem touches variable v and has
\* w as its only unassigned participant in heap h.
OnlyUnassignedIn(h, con, v, w) ==
    /\ IsIn(h[v].name, con.var_names)
    /\ IsIn(h[w].name, con.var_names)
    /\ \A i \in 1..Len(con.var_names) :
          \/ con.var_names[i] = h[w].name
          \/ h[DictGet(csp_copy.var_dict, con.var_names[i])].value # None

\* Whether value u of unassigned variable w falsifies some constraint
\* touching v in which w is the only unassigned participant.
Falsifies(h, v, w, u) ==
    \E k \in 1..Len(csp_copy.constraints) :
       /\ OnlyUnassignedIn(h, csp_copy.constraints[k], v, w)
       /\ ~Satisfied(csp_copy.constraints[k],
                     ArgList([h EXCEPT ![w].value = u], csp_copy,
                             csp_copy.constraints[k]))

\* The heap once the candidate value has been assigned to v and before the
\* forward check.
Assigned(v, value) ==
    [heap EXCEPT ![v].value = value, ![v].domain = <<value>>]

\* C20: forward checking after assigning variable v removes from the live
\* domain of an unassigned variable w exactly the values that falsify some
\* constraint touching v in which w is the only unassigned participant; it
\* removes no value that satisfies all such constraints, changes the domain
\* of no assigned variable, and leaves every variable's value as it was.
\* Checked on every step of the search that assigns a candidate and forward
\* checks it.
C20_ForwardCheckExact ==
    [][(pc = "bt_loop" /\ pc' = "bt_enter") =>
         \E v \in {stack[Len(stack)].next_var} :
         \E before \in {Assigned(stack[Len(stack)].next_var,
                                 trace'[Len(trace')][2])} :
            \A i \in 1..Len(csp_copy.var_list) :
               \E w \in {csp_copy.var_list[i]} :
                  /\ heap'[w].value = before[w].value
                  /\ before[w].value # None =>
                        heap'[w].domain = before[w].domain
                  /\ before[w].value = None =>
                        /\ heap'[w].domain =
                              SelectSeq(before[w].domain,
                                 LAMBDA u : ~Falsifies(before, v, w, u))
                        /\ \A u \in Range(before[w].domain) :
                              IsIn(u, heap'[w].domain)
                                 <=> ~Falsifies(before, v, w, u)]_vars

\* The second of three variables has been assigned and forward checked: the
\* check has removed some values of the variable still unassigned and kept
\* others, and has left the variable assigned first with its value and its
\* domain.
C20_Witness ==
    /\ pc = "bt_enter"
    /\ Len(csp_copy.var_list) = 3
    /\ Len(stack) = 2
    /\ \E f \in {stack[2]} :
          /\ f.saved # <<>>
          /\ heap[f.next_var].value # None
          /\ \E i, j \in 1..3 :
             \E w \in {csp_copy.var_list[i]} :
             \E first \in {csp_copy.var_list[j]} :
                /\ heap[w].value = None
                /\ heap[w].domain # <<>>
                /\ Len(heap[w].domain) < Len(f.saved[w].domain)
                /\ \E u \in Range(f.saved[w].domain) :
                      /\ ~IsIn(u, heap[w].domain)
                      /\ Falsifies(Assigned(f.next_var, heap[f.next_var].value),
                                   f.next_var, w, u)
                /\ first # f.next_var
                /\ heap[first].value # None
                /\ heap[first].value = f.saved[first].value
                /\ heap[first].domain = f.saved[first].domain

\* ------------------------------------------------------------------------
\* C21
\* ------------------------------------------------------------------------

\* The position of variable v in the declared variable order of the engine's
\* problem.
PositionOf(v) ==
    CHOOSE i \in 1..Len(csp_copy.var_list) : csp_copy.var_list[i] = v

\* C21: minimum-remaining-values selection.  The branching variable chosen
\* at each step is unassigned, no unassigned variable has a strictly smaller
\* live domain, and among the unassigned variables with that minimal
\* live-domain size it is the one earliest in the declared variable order.
\* Checked on every step in which a recursive call chooses its variable.
C21_MinimumRemainingValues ==
    [][(pc = "bt_enter" /\ pc' = "bt_loop") =>
         \E v \in {stack'[Len(stack')].next_var} :
            /\ Len(stack') = Len(stack) + 1
            /\ IsIn(v, csp_copy.var_list)
            /\ heap[v].value = None
            /\ \A i \in 1..Len(csp_copy.var_list) :
                  \E w \in {csp_copy.var_list[i]} :
                     heap[w].value = None =>
                        /\ Len(heap[w].domain) >= Len(heap[v].domain)
                        /\ Len(heap[w].domain) = Len(heap[v].domain) =>
                              PositionOf(v) <= i]_vars

\* A recursive call has just chosen its variable: an unassigned variable
\* declared before it has a larger live domain, and an unassigned variable
\* declared after it has a live domain of the same size.
C21_Witness ==
    /\ pc = "bt_loop"
    /\ \E f \in {stack[Len(stack)]} :
          /\ f.idx = 1
          /\ f.saved = <<>>
          /\ heap[f.next_var].value = None
          /\ \E i, j \in 1..Len(csp_copy.var_list) :
                /\ i < PositionOf(f.next_var)
                /\ PositionOf(f.next_var) < j
                /\ heap[csp_copy.var_list[i]].value = None
                /\ heap[csp_copy.var_list[j]].value = None
                /\ Len(heap[csp_copy.var_list[i]].domain)
                      > Len(heap[f.next_var].domain)
                /\ Len(heap[csp_copy.var_list[j]].domain)
                      = Len(heap[f.next_var].domain)

\* ------------------------------------------------------------------------
\* C22
\* ------------------------------------------------------------------------

\* The domain of the problem's variable called name.
DomainOf(name) == heap[DictGet(csp.var_dict, name)].domain

\* Whether some combination of values of the constraint's further
\* participants, each from the values left to it in remaining, satisfies the
\* constraint together with v = x and w = y.
Supported(remaining, constraint, v, x, w, y) ==
    \E f \in [Range(constraint.var_names) -> 1..MaxVal] :
       /\ f[v] = x
       /\ f[w] = y
       /\ \A u \in Range(constraint.var_names) \ {v, w} : f[u] \in remaining[u]
       /\ HoldsIn([i \in 1..Len(constraint.var_names) |->
                      <<constraint.var_names[i], f[constraint.var_names[i]]>>],
                  constraint)

\* The values left to the other variables if v := x, once the first k
\* constraints of the problem have eliminated theirs: a constraint
\* referencing v eliminates value y of its participant w when no combination
\* of its further participants, from the values left to them, satisfies it
\* together with v = x and w = y.
RECURSIVE Remaining(_, _, _)
Remaining(v, x, k) ==
    IF k = 0
    THEN [u \in Range(ProblemNames) \ {v} |-> Range(DomainOf(u))]
    ELSE IF ~IsIn(v, csp.constraints[k].var_names)
         THEN Remaining(v, x, k - 1)
         ELSE Bind(Remaining(v, x, k - 1),
                LAMBDA left :
                  [u \in DOMAIN left |->
                     IF IsIn(u, csp.constraints[k].var_names)
                     THEN {y \in left[u] :
                             Supported(left, csp.constraints[k], v, x, u, y)}
                     ELSE left[u]])

\* The score of value x of v: how many values of the other variables'
\* domains the constraints referencing v eliminate if v := x.
Score(v, x) ==
    Bind(Remaining(v, x, Len(csp.constraints)),
      LAMBDA left :
        Cardinality({p \in (Range(ProblemNames) \ {v}) \X (1..MaxVal) :
                        /\ IsIn(p[2], DomainOf(p[1]))
                        /\ p[2] \notin left[p[1]]}))

\* The score of value x of v when every constraint is taken with the
\* domains of the other variables as they are: how many of their values
\* have, in some constraint referencing v, no combination of the
\* constraint's further participants that satisfies it together with v = x.
ScoreOnDomains(v, x) ==
    Bind(Remaining(v, x, 0),
      LAMBDA untouched :
        Cardinality({p \in (Range(ProblemNames) \ {v}) \X (1..MaxVal) :
            /\ IsIn(p[2], DomainOf(p[1]))
            /\ \E k \in 1..Len(csp.constraints) :
                  /\ IsIn(v, csp.constraints[k].var_names)
                  /\ IsIn(p[1], csp.constraints[k].var_names)
                  /\ ~Supported(untouched, csp.constraints[k], v, x,
                                p[1], p[2])}))

\* The position of value x in sequence s.
IndexIn(s, x) == CHOOSE i \in 1..Len(s) : s[i] = x

\* Whether order is a permutation of domain in non-decreasing order of the
\* scores of v's values, values of equal score keeping their relative order.
IsStableOrder(order, domain, v, ScoreOf(_, _)) ==
    /\ Len(order) = Len(domain)
    /\ Range(order) = Range(domain)
    /\ \A p, q \in 1..Len(order) :
          p < q =>
             \/ ScoreOf(v, order[p]) < ScoreOf(v, order[q])
             \/ /\ ScoreOf(v, order[p]) = ScoreOf(v, order[q])
                /\ IndexIn(domain, order[p]) < IndexIn(domain, order[q])

\* C22: the value order computed for a variable v is a permutation of v's
\* domain in non-decreasing order of score, where the score of x is the
\* total number of values that would be eliminated from the other
\* variables' domains by the constraints referencing v if v := x (a value y
\* of w is eliminated when no combination of the constraint's further
\* participants satisfies it together with v=x, w=y); values with equal
\* scores keep their relative domain order.  Checked on the step in which
\* backtracking computes the value order of every variable.
C22_ValueOrder ==
    [][pc = "backtracking" =>
         /\ Len(domains') = Len(ProblemNames)
         /\ \A i \in 1..Len(ProblemNames) :
               /\ DictHas(domains', ProblemNames[i])
               /\ IsStableOrder(DictGet(domains', ProblemNames[i]),
                                DomainOf(ProblemNames[i]), ProblemNames[i],
                                ScoreOnDomains)]_vars

\* C22, amended: the same, with the constraints referencing v eliminating in
\* the order they were added, each from the values the ones before it have
\* left: the combinations of a constraint's further participants are taken
\* from the values not yet eliminated.
C22_ValueOrderCumulative ==
    [][pc = "backtracking" =>
         /\ Len(domains') = Len(ProblemNames)
         /\ \A i \in 1..Len(ProblemNames) :
               /\ DictHas(domains', ProblemNames[i])
               /\ IsStableOrder(DictGet(domains', ProblemNames[i]),
                                DomainOf(ProblemNames[i]), ProblemNames[i],
                                Score)]_vars

\* backtracking has computed the value orders of a problem with two
\* constraints: the order of a variable with three values is not the order
\* of its domain, two of its values have the same score and two have
\* different scores; and a value has a higher score than on the domains as
\* they are, an earlier constraint having left a further participant of a
\* later one without the values that would support it.
C22_Witness ==
    /\ pc = "bt_enter"
    /\ info_i = 0
    /\ Len(csp.constraints) = 2
    /\ \E i \in 1..Len(ProblemNames) :
       \E order \in {DictGet(domains, ProblemNames[i])} :
          /\ Len(order) = 3
          /\ order # DomainOf(ProblemNames[i])
          /\ \E p, q \in 1..3 :
                /\ p < q
                /\ Score(ProblemNames[i], order[p]) = Score(ProblemNames[i], order[q])
          /\ \E p, q \in 1..3 :
                Score(ProblemNames[i], order[p]) < Score(ProblemNames[i], order[q])
    /\ \E i \in 1..Len(ProblemNames) :
       \E x \in Range(DomainOf(ProblemNames[i])) :
          Score(ProblemNames[i], x) > ScoreOnDomains(ProblemNames[i], x)

\* ------------------------------------------------------------------------
\* C23
\* ------------------------------------------------------------------------

\* _recursive_backtracking is at its entry and makes its progress report
\* there: num_constraints_violated calls the predicate of every constraint on
\* the variables as they are.
ProgressReportDue ==
    /\ pc = "bt_enter"
    /\ call.progress_freq # 0
    /\ (info_i + 1) % call.progress_freq = 0

\* Whether every participant of every constraint of the engine's problem is
\* assigned.
ParticipantsAssigned ==
    \A k \in 1..Len(csp_copy.constraints) :
       \A i \in 1..Len(csp_copy.constraints[k].var_names) :
          heap[DictGet(csp_copy.var_dict,
                       csp_copy.constraints[k].var_names[i])].value # None

\* C23: neither engine ever evaluates a constraint predicate while one of
\* the constraint's participants is unassigned, for any values of the
\* presentation options verbose and progress_freq.  Where an engine
\* evaluates every predicate on the variables as they are (the progress
\* report of backtracking, and solved and select_most_conflicting_var in the
\* loop of min_conflicts), every participant is assigned.
C23_PredicatesOnBoundVariables ==
    /\ ProgressReportDue => ParticipantsAssigned
    /\ pc = "mc_loop" => ParticipantsAssigned

\* The predicates that raise on an unassigned variable make the call fail
\* there: a backtracking call that raises TypeError was due to report its
\* progress.
C23_ReportRaises ==
    [][(pc # "idle" /\ pc' = "idle" /\ result' = RRaise("TypeError")) =>
          /\ ProgressReportDue
          /\ ~ParticipantsAssigned]_vars

\* ------------------------------------------------------------------------
\* C24
\* ------------------------------------------------------------------------

\* C24: with take_first set, once backtracking records its first solution
\* no further assignment, pruning or undo is performed: the success
\* propagates through every ancestor choice point, exactly one solution is
\* recorded, and the returned mapping is that first recorded solution.  As a
\* property of every step of a take_first call that has a solution
\* recorded: while the call goes on, no variable changes its value or
\* domain, no candidate is tried, nothing more is recorded, and the step
\* hands the solution to the caller one level up; and the call returns the
\* one solution recorded.
C24_FirstSolutionShortCircuits ==
    [][(/\ call.algorithm = "backtracking"
        /\ call.take_first
        /\ pc # "idle"
        /\ solutions # <<>>) =>
          /\ Len(solutions) = 1
          /\ ret = <<solutions[1]>>
          /\ pc \in {"bt_resume", "bt_done"}
          /\ pc' # "idle" =>
                /\ pc = "bt_resume"
                /\ SameValuesAndDomains(heap', heap)
                /\ trace' = trace
                /\ info_i' = info_i
                /\ solutions' = solutions
                /\ ret' = ret
                /\ stack' = SubSeq(stack, 1, Len(stack) - 1)
          /\ pc' = "idle" =>
                /\ pc = "bt_done"
                /\ stack = <<>>
                /\ result' = RDict(solutions[1])]_vars

\* The first solution of a take_first call is on its way up through two
\* ancestor choice points, and each of them has values it has not tried.
C24_Witness ==
    /\ pc = "bt_resume"
    /\ call.take_first
    /\ Len(solutions) = 1
    /\ Len(stack) = 2
    /\ \A k \in 1..2 :
          stack[k].idx < Len(DictGet(domains, heap[stack[k].next_var].name))
    /\ \A i \in 1..Len(csp_copy.var_list) :
          heap[csp_copy.var_list[i]].value # None

\* ------------------------------------------------------------------------
\* C25
\* ------------------------------------------------------------------------

\* The mapping of the values the variables of the engine's problem hold in
\* heap h.
MappingOf(h) ==
    [i \in 1..Len(csp_copy.var_list) |->
        <<h[csp_copy.var_list[i]].name, h[csp_copy.var_list[i]].value>>]

\* The number of constraints of the engine's problem that the values held in
\* heap h violate.
Conflicts(h) ==
    Cardinality({k \in 1..Len(csp_copy.constraints) :
                    ~HoldsIn(MappingOf(h), csp_copy.constraints[k])})

\* min_conflicts is about to make a repair step: the loop goes on and some
\* constraint is violated.
RepairStepDue ==
    /\ pc = "mc_loop"
    /\ mc_i < call.iter_limit
    /\ Conflicts(heap) > 0

\* C25: the repair step of min-conflicts without uniqueness mode.  After
\* assign_least_conflicting_value on variable v, v holds a value of its
\* initial domain for which the number of violated constraints (all other
\* variables held fixed) is minimal over v's initial domain, and every other
\* variable has the same value as before the step.  Checked wherever
\* min_conflicts makes a repair step, for every variable it may choose and
\* every outcome of the random choice among the least conflicting values.
C25_LeastConflictingValue ==
    (RepairStepDue /\ ~call.uniqueness) =>
       \A v \in select_most_conflicting_var(heap, csp_copy) :
          \A after \in {r.heap : r \in assign_least_conflicting_value(
                                            heap, csp_copy, v, FALSE)} :
             /\ IsIn(after[v].value, heap[v].init_domain)
             /\ \A x \in Range(heap[v].init_domain) :
                   Conflicts(after) <= Conflicts([heap EXCEPT ![v].value = x])
             /\ \A i \in 1..Len(csp_copy.var_list) :
                   csp_copy.var_list[i] # v =>
                      after[csp_copy.var_list[i]].value
                         = heap[csp_copy.var_list[i]].value

\* A repair step is due whose variable has values of its initial domain with
\* different numbers of violated constraints, and two values with the least
\* number: the step can leave either, and one of them is not the value the
\* variable holds.
C25_Witness ==
    /\ RepairStepDue
    /\ ~call.uniqueness
    /\ Len(csp_copy.constraints) = 2
    /\ \E v \in select_most_conflicting_var(heap, csp_copy) :
          /\ \E after, other \in
                   {r.heap : r \in assign_least_conflicting_value(
                                      heap, csp_copy, v, FALSE)} :
                /\ after[v].value # other[v].value
                /\ after[v].value # heap[v].value
                /\ Conflicts(after) < Conflicts(heap)
          /\ \E x, y \in Range(heap[v].init_domain) :
                Conflicts([heap EXCEPT ![v].value = x])
                   < Conflicts([heap EXCEPT ![v].value = y])

\* ------------------------------------------------------------------------
\* C26
\* ------------------------------------------------------------------------

\* C26: the repair step of min-conflicts in uniqueness mode commits the
\* chosen value.  When assign_least_conflicting_value returns value x for
\* variable v, v holds x afterwards (also when x is the value v held before
\* the step), and the only other variable whose value may differ from
\* before the step is the one displaced variable that held x.  Checked
\* wherever min_conflicts makes a repair step, for every variable it may
\* choose and every outcome of the random choices.
C26_UniquenessCommits ==
    (RepairStepDue /\ call.uniqueness) =>
       \A v \in select_most_conflicting_var(heap, csp_copy) :
          \A r \in assign_least_conflicting_value(heap, csp_copy, v, TRUE) :
             /\ r.heap[v].value = r.lc_value
             /\ \A i \in 1..Len(csp_copy.var_list) :
                   \E w \in {csp_copy.var_list[i]} :
                      (w # v /\ r.heap[w].value # heap[w].value) =>
                         /\ heap[w].value = r.lc_value
                         /\ \A j \in 1..Len(csp_copy.var_list) :
                               \E u \in {csp_copy.var_list[j]} :
                                  (u # v /\ u # w) =>
                                     r.heap[u].value = heap[u].value

\* The same when the value returned is not the value v held before the
\* step.
C26_CommitsNewValue ==
    (RepairStepDue /\ call.uniqueness) =>
       \A v \in select_most_conflicting_var(heap, csp_copy) :
          \A r \in assign_least_conflicting_value(heap, csp_copy, v, TRUE) :
             r.lc_value # heap[v].value => r.heap[v].value = r.lc_value

\* Only the displaced variable that held the value returned may change
\* besides v.
C26_OnlyDisplacedMoves ==
    (RepairStepDue /\ call.uniqueness) =>
       \A v \in select_most_conflicting_var(heap, csp_copy) :
          \A r \in assign_least_conflicting_value(heap, csp_copy, v, TRUE) :
             Cardinality({i \in 1..Len(csp_copy.var_list) :
                /\ csp_copy.var_list[i] # v
                /\ r.heap[csp_copy.var_list[i]].value
                      # heap[csp_copy.var_list[i]].value
                /\ heap[csp_copy.var_list[i]].value # r.lc_value}) = 0


\* ------------------------------------------------------------------------
\* C27
\* ------------------------------------------------------------------------

\* Whether the problem has a constraint on a variable that is not in it.
ProblemIsMalformed ==
    \E k \in 1..Len(csp.constraints) : NamesUnknownVariable(csp.constraints[k])

\* C27: the unsupported-algorithm error is raised only for an unknown
\* algorithm name: a solve by 'backtracking' or 'min_conflicts' of a problem
\* with a constraint on a variable that is not in the problem does not end
\* with NotImplementedError, and when it fails at the lookup of that
\* variable the caller gets the lookup failure, KeyError.
C27_UnsupportedOnlyForUnknownName ==
    (/\ pc = "idle"
     /\ result # NoResult
     /\ call.algorithm \in Algorithms
     /\ ProblemIsMalformed)
    => result # RRaise("NotImplementedError")

\* What the code does instead: no solve of such a problem ends with KeyError;
\* whenever a known algorithm meets the lookup it ends with
\* NotImplementedError.
C27_LookupFailureIsRelabelled ==
    (/\ pc = "idle"
     /\ result # NoResult
     /\ ProblemIsMalformed)
    => /\ result # RRaise("KeyError")
       /\ (call.algorithm = "min_conflicts" /\ call.iter_limit >= 1
           /\ \A i \in 1..Len(csp.var_list) :
                 heap[csp.var_list[i]].init_domain # <<>>)
          => result = RRaise("NotImplementedError")


\* ------------------------------------------------------------------------
\* C28
\* ------------------------------------------------------------------------

\* C28: in min-conflicts without uniqueness mode the number of violated
\* constraints never increases from one iteration to the next, whatever the
\* random choices of the variable and of the value: every step of the loop
\* that stays in the loop leaves no more violated constraints than it found.
C28_ConflictsNeverIncrease ==
    [][(/\ pc = "mc_loop"
        /\ pc' = "mc_loop"
        /\ ~call.uniqueness)
       => Conflicts(heap') <= Conflicts(heap)]_vars

\* The reason the claim gives: wherever a repair step is due without
\* uniqueness mode, the value each variable holds is one of the values of
\* its initial domain, the candidates of the step.
C28_CurrentValueIsCandidate ==
    (pc = "mc_loop" /\ ~call.uniqueness) =>
       \A i \in 1..Len(csp_copy.var_list) :
          IsIn(heap[csp_copy.var_list[i]].value,
               heap[csp_copy.var_list[i]].init_domain)

\* After a repair step another one is due, without uniqueness mode, in which
\* no value of some most conflicting variable does better than the one it
\* holds, so that the step can move it to another value with the same number
\* of violated constraints; for another choice of the variable the number
\* goes down.
C28_Witness ==
    /\ RepairStepDue
    /\ ~call.uniqueness
    /\ mc_i >= 1
    /\ \E v \in select_most_conflicting_var(heap, csp_copy) :
          \E r \in assign_least_conflicting_value(heap, csp_copy, v, FALSE) :
             /\ r.heap[v].value # heap[v].value
             /\ Conflicts(r.heap) = Conflicts(heap)
    /\ \E v \in select_most_conflicting_var(heap, csp_copy) :
          \E r \in assign_least_conflicting_value(heap, csp_copy, v, FALSE) :
             Conflicts(r.heap) < Conflicts(heap)


\* ------------------------------------------------------------------------
\* C29
\* ------------------------------------------------------------------------

\* min_conflicts with take_first is about to return None after at least one
\* repair step: the loop has ended at the iteration limit.
GivesUpAfterRepair ==
    /\ pc = "mc_loop"
    /\ ~(mc_i < call.iter_limit)
    /\ call.take_first
    /\ mc_i >= 1

\* C29: min_conflicts with take_first reports failure only when it gave up
\* without reaching a solution: when it returns None after iter_limit >= 1
\* repair steps, the assignment it holds after the last repair step violates
\* at least one constraint.
C29_FailureMeansUnsolved ==
    GivesUpAfterRepair => Conflicts(heap) > 0

\* What holds of the code: the assignment found at the start of the last
\* iteration violated a constraint (the test of solved comes before the
\* repair step and not after it).
C29_UnsolvedBeforeLastRepair ==
    [][(/\ pc = "mc_loop"
        /\ pc' = "mc_loop"
        /\ call.take_first)
       => Conflicts(heap) > 0]_vars

====
